---- MODULE Spec2Model ----
(***************************************************************************)
(* Clinical KPI backend (src/backend): the interval arithmetic of          *)
(* _overlap_seconds and the unit-level report build_kpi_cti_gestao over a  *)
(* snapshot of the collections internacoes, estadas_setor, ventilacao,     *)
(* antibioticos_uso, antibiotico_periodos and paciente_dia_setor, with the *)
(* helpers _stats, p90, _ratio and _normaliza_destino; the endpoint        *)
(* GET /kpi/gestao, which validates the request, calls the report and      *)
(* upserts it into kpi_cti_gestao; the patient-level document              *)
(* build_kpi_paciente behind GET /kpi/paciente; and the connection         *)
(* singleton get_db, called from the worker threads of the server.         *)
(*                                                                         *)
(* A call of build_kpi_cti_gestao or of GET /kpi/gestao runs on a worker    *)
(* thread as a sequence of steps: one step is the answer of the storage to *)
(* one blocking call (list_collection_names, find, aggregate, distinct,    *)
(* update_one) followed by the lines up to the next blocking call.         *)
(* Between two steps of a call the wall clock may advance (Tick) and the   *)
(* other worker threads may run, and under any blocking call of the two    *)
(* endpoints the storage may fail.  The specifications of the reports     *)
(* start after the first connection (_db holds the handle); SpecSingleton, *)
(* SpecConc and SpecPaciente start before it, and those of GET /kpi/gestao *)
(* have snapshots of both kinds.  get_db is followed statement by          *)
(* statement; line 43, which reads the global _client and stores the       *)
(* global _db, is two steps.                                               *)
(*                                                                         *)
(* Instants are whole hours on the UTC axis.  A stored or passed value is  *)
(* a record [k, t]: k = "none" is Python's None (or a missing field),      *)
(* k = "aware" is a datetime whose astimezone(timezone.utc) is the         *)
(* instant t, k = "naive" is a datetime without tzinfo whose wall-clock    *)
(* reading is t, k = "bad" is a non-empty string that is not an ISO date.  *)
(* One invocation reads the clock several times: line 110 reads now_utc,   *)
(* the value of the variable now at that step, and line 62 reads it again  *)
(* in each call with an open interval; a Relogio holds the readings of one *)
(* invocation, none earlier than one taken before it.  The reports are     *)
(* computed by a process whose local zone is UTC (tz = 0), for which a     *)
(* stored date the driver hands over denotes the instant it was stored     *)
(* with; the conversions themselves take any tz.                           *)
(*                                                                         *)
(* Quotients are Python floats.  A float is modelled as the IEEE 754       *)
(* binary64 value [s, m, e] = (-1)^s * m * 2^e, with m a list of digits in *)
(* base 2^14, and round(x, n) as the decimal nearest to that value; the    *)
(* rounded figures of the report are integers in units of 10^-n.           *)
(*                                                                         *)
(* A query without a sort returns its documents in an order the program    *)
(* does not fix.  What depends on that order (the float sum of a mean or   *)
(* of the days of therapy, the document a dict keeps for a repeated key,   *)
(* the order of equal keys after a stable sort) is a set of outcomes, and  *)
(* an invocation takes one of them.                                        *)
(***************************************************************************)
EXTENDS Integers, Sequences, FiniteSets, TLC

VARIABLES
    now,          \* reading of datetime.now(timezone.utc), in hours
    tz,           \* UTC offset of the process's local zone, in hours
    call,         \* arguments of a direct call or of a request
    ret,          \* its result or response: [done, v, ...]
    internacoes,  \* collection cti.internacoes
    estadas,      \* collection cti.estadas_setor
    ventilacao,   \* collection cti.ventilacao
    antibioticos_uso,      \* collection cti.antibioticos_uso
    antibiotico_periodos,  \* collection cti.antibiotico_periodos
    paciente_dia_setor,    \* collection cti.paciente_dia_setor
    kpi_cti_gestao,        \* collection cti.kpi_cti_gestao
    cti_setores,           \* collection cti.setores
    setores,               \* collection setores
    dispositivo_uso,       \* collection cti.dispositivo_uso
    labs,                  \* collection cti.labs
    _client,      \* module global _client of db_connection
    _db,          \* module global _db of db_connection
    thr,          \* the threads of the server: position and frame of each
    doc,          \* document returned by the last build_kpi_cti_gestao
    loc           \* locals of that invocation the document is computed from

vars == <<now, tz, call, ret, internacoes, estadas, ventilacao,
          antibioticos_uso, antibiotico_periodos, paciente_dia_setor, cti_setores, setores,
                   dispositivo_uso, labs,
          kpi_cti_gestao, _client, _db, thr, doc, loc>>

-----------------------------------------------------------------------------
(* Program constants *)

SecsPerHour == 3600
SecsPerDay == 86400
HoursPerDay == SecsPerDay \div SecsPerHour
Limite48h == 48

(* Bounds of the model *)

MaxT == 4        \* instants 0..MaxT in direct calls of _overlap_seconds
MaxDay == 3      \* instants of the snapshots lie in days 0..MaxDay

-----------------------------------------------------------------------------
(* Values *)

None == [k |-> "none", t |-> 0]
Dt(t) == [k |-> "aware", t |-> t]
Naive(t) == [k |-> "naive", t |-> t]
Bad == [k |-> "bad", t |-> 0]

Max(a, b) == IF a >= b THEN a ELSE b
Min(a, b) == IF a <= b THEN a ELSE b

\* Python truthiness of a value that is None or a datetime
Truthy(v) == v.k # "none"

\* astimezone on a datetime without tzinfo reads it as local time
_coerce_dt(v) ==
    IF v.k = "none" THEN None
    ELSE IF v.k = "aware" THEN Dt(v.t)
    ELSE IF v.k = "naive" THEN Dt(v.t - tz)
    ELSE None

\* (b - a).total_seconds()
total_seconds(a, b) == (b.t - a.t) * SecsPerHour

_overlap_seconds_mut_noclip(a_start, a_end, b_start, b_end, clock) ==
    LET a0 == _coerce_dt(a_start)
        a1 == IF Truthy(a_end) THEN _coerce_dt(a_end) ELSE None
        b0 == _coerce_dt(b_start)
        b1 == _coerce_dt(b_end)
    IN  IF ~Truthy(a0) \/ ~Truthy(b0) \/ ~Truthy(b1) THEN 0
        ELSE LET a1n == IF a1.k = "none" THEN Dt(clock) ELSE a1
                 ini == Dt(Max(a0.t, b0.t))
                 secs == total_seconds(ini, a1n)
             IN  IF secs > 0 THEN secs ELSE 0

_overlap_seconds_mut_open_to_window(a_start, a_end, b_start, b_end, clock) ==
    LET a0 == _coerce_dt(a_start)
        a1 == IF Truthy(a_end) THEN _coerce_dt(a_end) ELSE None
        b0 == _coerce_dt(b_start)
        b1 == _coerce_dt(b_end)
    IN  IF ~Truthy(a0) \/ ~Truthy(b0) \/ ~Truthy(b1) THEN 0
        ELSE LET a1n == IF a1.k = "none" THEN b1 ELSE a1
                 ini == Dt(Max(a0.t, b0.t))
                 fim == Dt(Min(a1n.t, b1.t))
                 secs == total_seconds(ini, fim)
             IN  IF secs > 0 THEN secs ELSE 0

\* clock is the value datetime.now(timezone.utc) returns when line 62 runs
_overlap_seconds(a_start, a_end, b_start, b_end, clock) ==
    LET a0 == _coerce_dt(a_start)
        a1 == IF Truthy(a_end) THEN _coerce_dt(a_end) ELSE None
        b0 == _coerce_dt(b_start)
        b1 == _coerce_dt(b_end)
    IN  IF ~Truthy(a0) \/ ~Truthy(b0) \/ ~Truthy(b1) THEN 0
        ELSE LET a1n == IF a1.k = "none" THEN Dt(clock) ELSE a1
                 ini == Dt(Max(a0.t, b0.t))
                 fim == Dt(Min(a1n.t, b1.t))
                 secs == total_seconds(ini, fim)
             IN  IF secs > 0 THEN secs ELSE 0

\* line 62 runs: the instants are valid and a_end is missing or not a date
le_relogio(a_start, a_end, b_start, b_end) ==
    /\ Truthy(_coerce_dt(a_start))
    /\ Truthy(_coerce_dt(b_start))
    /\ Truthy(_coerce_dt(b_end))
    /\ ~(Truthy(a_end) /\ Truthy(_coerce_dt(a_end)))

\* the readings of the wall clock in one invocation of build_kpi_cti_gestao:
\* now_utc is the reading of line 110 and l62[<<id, i>>] the reading of line 62
\* in the call of _overlap_seconds for the document id (i = 0) or for the i-th
\* period embedded in it
Relogio(now_utc, l62) == [now_utc |-> now_utc, l62 |-> l62]

leitura(clock, id, i) ==
    IF <<id, i>> \in DOMAIN clock.l62 THEN clock.l62[<<id, i>>] ELSE clock.now_utc

-----------------------------------------------------------------------------
(* Direct calls of _overlap_seconds *)

NoRet == [done |-> FALSE, v |-> 0]
NoCall == [a_start |-> None, a_end |-> None, b_start |-> None, b_end |-> None]
NoDoc == [built |-> FALSE]

\* the objects MongoClient(...) and _client[name]; t numbers the clients in the
\* order of their construction
MongoClient(n) == [k |-> "client", t |-> n]
Database(c) == [k |-> "db", t |-> c.t]

\* the worker threads that run the endpoints and their dependencies
Threads == {1, 2}

\* a thread that is running nothing: pc is its position, ra the position
\* get_db returns to, v the value its last call returned or raised, criados and
\* falhas count the clients it has constructed and the pings that failed under
\* it
Ocioso == [pc |-> "idle", ra |-> "done", v |-> None, criados |-> 0, falhas |-> 0]
NoThreads == [t \in Threads |-> Ocioso]

InstantesT == {Dt(t) : t \in 0..MaxT}

InitOverlap ==
    /\ now \in 0..MaxT
    /\ tz = 0
    /\ call \in [a_start : InstantesT, a_end : InstantesT \cup {None},
                 b_start : InstantesT, b_end : InstantesT]
    /\ ret = NoRet
    /\ internacoes = {}
    /\ estadas = {}
    /\ ventilacao = {}
    /\ antibioticos_uso = {}
    /\ antibiotico_periodos = {}
    /\ paciente_dia_setor = {}
    /\ kpi_cti_gestao = {}
    /\ cti_setores = {}
    /\ setores = {}
    /\ dispositivo_uso = {}
    /\ labs = {}
    /\ _client = MongoClient(1)
    /\ _db = Database(_client)
    /\ thr = NoThreads
    /\ doc = NoDoc
    /\ loc = NoDoc

OverlapCall ==
    /\ ~ret.done
    /\ ret' = [done |-> TRUE,
               v |-> _overlap_seconds(call.a_start, call.a_end,
                                      call.b_start, call.b_end, now)]
    /\ UNCHANGED <<now, tz, call, internacoes, estadas, ventilacao,
                   antibioticos_uso, antibiotico_periodos, paciente_dia_setor, cti_setores, setores,
                   dispositivo_uso, labs,
                   kpi_cti_gestao, _client, _db, thr, doc, loc>>

NextOverlap == OverlapCall

SpecOverlap == InitOverlap /\ [][NextOverlap]_vars

-----------------------------------------------------------------------------
(* C1: with every instant valid and a_end present, _overlap_seconds        *)
(* returns max(0, min(aEnd, windowEnd) - max(aStart, windowStart)) in      *)
(* seconds: never negative, and 0 when either interval is degenerate or    *)
(* the two do not overlap.                                                 *)
C1_OverlapFormula ==
    (ret.done /\ call.a_end.k = "aware") =>
        LET as == call.a_start.t
            ae == call.a_end.t
            ws == call.b_start.t
            we == call.b_end.t
        IN  /\ ret.v = Max(0, (Min(ae, we) - Max(as, ws)) * SecsPerHour)
            /\ ret.v >= 0
            /\ (ae <= as \/ we <= ws) => ret.v = 0
            /\ (ae <= ws \/ we <= as) => ret.v = 0

C1_Witness ==
    /\ ret.done
    /\ call.a_end.k = "aware"
    /\ call.a_start.t < call.b_start.t
    /\ call.b_start.t < call.a_end.t
    /\ call.a_end.t < call.b_end.t
    /\ ret.v = (call.a_end.t - call.b_start.t) * SecsPerHour

(* C2 as stated: for an open interval, a window with start < end and      *)
(* now >= windowEnd the result is windowEnd - max(aStart, windowStart).    *)
C2_Original ==
    (ret.done /\ call.a_end.k = "none" /\ call.b_start.t < call.b_end.t
              /\ now >= call.b_end.t) =>
        ret.v = (call.b_end.t - Max(call.a_start.t, call.b_start.t)) * SecsPerHour

(* C2 amended: for an open interval the overlap is computed with aEnd      *)
(* replaced by now, and whenever now >= windowEnd the result is            *)
(* max(0, windowEnd - max(aStart, windowStart)), whatever now is.          *)
C2_OpenClippedByWindow ==
    (ret.done /\ call.a_end.k = "none") =>
        /\ ret.v = Max(0, (Min(now, call.b_end.t) - Max(call.a_start.t, call.b_start.t))
                           * SecsPerHour)
        /\ now >= call.b_end.t =>
              ret.v = Max(0, (call.b_end.t - Max(call.a_start.t, call.b_start.t))
                             * SecsPerHour)

C2_Witness ==
    /\ ret.done
    /\ call.a_end.k = "none"
    /\ call.a_start.t = call.b_start.t
    /\ call.b_end.t = call.b_start.t + 1
    /\ now = MaxT
    /\ ret.v = SecsPerHour

-----------------------------------------------------------------------------
(* Snapshot values *)

Setores == {"CTI-ADULTO", "UCO"}
Pacientes == {"P1", "P2"}

\* Python None in a string field
NoneStr == "<None>"

\* str.lower().strip() on the labels the snapshots hold
lower_strip(s) ==
    CASE s = "OBITO" -> "obito"
      [] s = " Casa " -> "casa"
      [] s = " Transferencia " -> "transferencia"
      [] s = "  " -> ""
      [] OTHER -> s

\* str.lower()
lower(s) ==
    CASE s = "OBITO" -> "obito"
      [] s = "CVC" -> "cvc"
      [] s = "PICC" -> "picc"
      [] s = " Casa " -> " casa "
      [] s = " Transferencia " -> " transferencia "
      [] OTHER -> s

\* (x or default) for a string field
OrStr(x, default) == IF x = NoneStr \/ x = "" THEN default ELSE x

\* data_iso_utc: the calendar fields of dt.astimezone(timezone.utc), as the ISO
\* text has them; a datetime without tzinfo is read as local time
data_iso_utc(dt) ==
    LET utc == IF dt.k = "naive" THEN dt.t - tz ELSE dt.t
    IN  [dia |-> utc \div HoursPerDay, hora |-> utc % HoursPerDay]

\* diferenca_horas(a, b): instants are whole hours, so the quotient is exact
diferenca_horas(a, b) == total_seconds(a, b) \div SecsPerHour

\* a number or None, as an aggregation stage computes it
Num(n) == [k |-> "num", t |-> n]

RECURSIVE Pow10(_)
Pow10(n) == IF n <= 0 THEN 1 ELSE 10 * Pow10(n - 1)

(* Python floats.  A float is an IEEE 754 double: sign s, and the magnitude *)
(* m * 2^e with m below 2^53.  m is held as a list of digits in base 2^14,  *)
(* least significant first, so that every intermediate product fits a       *)
(* machine integer; <<>> is zero.  The operations are those of the          *)
(* hardware: the exact result, rounded to 53 bits, ties to even.            *)

Base == 16384
BitsPerDigit == 14
MantissaBits == 53

RECURSIVE Pow2(_)
Pow2(n) == IF n <= 0 THEN 1 ELSE 2 * Pow2(n - 1)

RECURSIVE BitLength(_)
\* int.bit_length()
BitLength(n) == IF n = 0 THEN 0 ELSE 1 + BitLength(n \div 2)

RECURSIVE BNorm(_)
\* without leading zero digits
BNorm(x) ==
    IF x = <<>> THEN <<>>
    ELSE IF x[Len(x)] = 0 THEN BNorm(SubSeq(x, 1, Len(x) - 1))
    ELSE x

RECURSIVE BInt(_)
\* the digits of a machine integer n >= 0
BInt(n) == IF n = 0 THEN <<>> ELSE <<n % Base>> \o BInt(n \div Base)

RECURSIVE BToInt(_)
\* the machine integer of digits that fit one
BToInt(x) == IF x = <<>> THEN 0 ELSE x[1] + Base * BToInt(Tail(x))

Digit(x, i) == IF i <= Len(x) THEN x[i] ELSE 0

RECURSIVE BAddFrom(_, _, _, _)
BAddFrom(x, y, i, c) ==
    IF i > Len(x) /\ i > Len(y) /\ c = 0 THEN <<>>
    ELSE LET s == Digit(x, i) + Digit(y, i) + c
         IN  <<s % Base>> \o BAddFrom(x, y, i + 1, s \div Base)

BAdd(x, y) == BAddFrom(x, y, 1, 0)

RECURSIVE BSubFrom(_, _, _, _)
BSubFrom(x, y, i, b) ==
    IF i > Len(x) THEN <<>>
    ELSE LET d == x[i] - Digit(y, i) - b
         IN  <<IF d < 0 THEN d + Base ELSE d>>
             \o BSubFrom(x, y, i + 1, IF d < 0 THEN 1 ELSE 0)

\* x - y for x >= y
BSub(x, y) == BNorm(BSubFrom(x, y, 1, 0))

RECURSIVE BCmpFrom(_, _, _)
BCmpFrom(x, y, i) ==
    IF i = 0 THEN 0
    ELSE IF x[i] < y[i] THEN -1
    ELSE IF x[i] > y[i] THEN 1
    ELSE BCmpFrom(x, y, i - 1)

\* -1, 0 or 1 as x is below, equal to or above y
BCmp(x, y) ==
    IF Len(x) < Len(y) THEN -1
    ELSE IF Len(x) > Len(y) THEN 1
    ELSE BCmpFrom(x, y, Len(x))

RECURSIVE BMulSmallFrom(_, _, _, _)
BMulSmallFrom(x, k, i, c) ==
    IF i > Len(x) THEN BInt(c)
    ELSE LET p == x[i] * k + c
         IN  <<p % Base>> \o BMulSmallFrom(x, k, i + 1, p \div Base)

\* x * k for a machine integer 0 <= k <= Base
BMulSmall(x, k) == BNorm(BMulSmallFrom(x, k, 1, 0))

RECURSIVE BMulFrom(_, _)
BMulFrom(x, y) ==
    IF x = <<>> THEN <<>>
    ELSE BAdd(BMulSmall(y, x[1]), <<0>> \o BMulFrom(Tail(x), y))

BMul(x, y) == BNorm(BMulFrom(x, y))

\* x * 2^k
BShl(x, k) ==
    IF x = <<>> THEN <<>>
    ELSE [i \in 1..(k \div BitsPerDigit) |-> 0] \o BMulSmall(x, Pow2(k % BitsPerDigit))

RECURSIVE BDivSmallFrom(_, _, _, _)
BDivSmallFrom(x, d, i, r) ==
    IF i = 0 THEN [q |-> <<>>, r |-> r]
    ELSE LET cur == r * Base + x[i]
             rest == BDivSmallFrom(x, d, i - 1, cur % d)
         IN  [q |-> rest.q \o <<cur \div d>>, r |-> rest.r]

\* quotient and remainder of x by a machine integer 0 < d < 2^17
BDivSmall(x, d) ==
    LET qr == BDivSmallFrom(x, d, Len(x), 0)
    IN  [q |-> BNorm(qr.q), r |-> qr.r]

\* floor(x / 2^k) and x mod 2^k
BShr(x, k) ==
    LET n == k \div BitsPerDigit
    IN  IF n >= Len(x) THEN <<>>
        ELSE BDivSmall(SubSeq(x, n + 1, Len(x)), Pow2(k % BitsPerDigit)).q

BLow(x, k) ==
    LET n == k \div BitsPerDigit
    IN  IF n >= Len(x) THEN x
        ELSE BNorm(SubSeq(x, 1, n)
                   \o <<BDivSmall(SubSeq(x, n + 1, Len(x)), Pow2(k % BitsPerDigit)).r>>)

BBits(x) ==
    IF x = <<>> THEN 0
    ELSE BitsPerDigit * (Len(x) - 1) + BitLength(x[Len(x)])

\* -1, 0 or 1 as the k low bits of x are below, equal to or above one half of 2^k
BHalf(x, k) == IF k = 0 THEN -1 ELSE BCmp(BLow(x, k), BShl(<<1>>, k - 1))

Float(s, m, e) == [s |-> s, m |-> m, e |-> e]
FZero == Float(1, <<>>, 0)

\* float(n) of a machine integer
FInt(n) == IF n < 0 THEN Float(-1, BInt(0 - n), 0) ELSE Float(1, BInt(n), 0)

\* the double nearest s * (x + d) * 2^e, where 0 <= d < 1 and d > 0 iff sticky
FRound(s, x, e, sticky) ==
    LET sh == BBits(x) - MantissaBits
    IN  IF x = <<>> THEN FZero
        ELSE IF sh <= 0 THEN Float(s, x, e)
        ELSE LET q == BShr(x, sh)
                 c == BHalf(x, sh)
                 up == c = 1 \/ (c = 0 /\ (sticky \/ q[1] % 2 = 1))
             IN  Float(s, IF up THEN BAdd(q, <<1>>) ELSE q, e + sh)

FNeg(x) == IF x.m = <<>> THEN x ELSE Float(0 - x.s, x.m, x.e)

\* x + y
FAdd(x, y) ==
    IF x.m = <<>> THEN y
    ELSE IF y.m = <<>> THEN x
    ELSE LET e == IF x.e <= y.e THEN x.e ELSE y.e
             a == BShl(x.m, x.e - e)
             b == BShl(y.m, y.e - e)
             c == BCmp(a, b)
         IN  IF x.s = y.s THEN FRound(x.s, BAdd(a, b), e, FALSE)
             ELSE IF c = 0 THEN FZero
             ELSE IF c = 1 THEN FRound(x.s, BSub(a, b), e, FALSE)
             ELSE FRound(y.s, BSub(b, a), e, FALSE)

\* x - y
FSub(x, y) == FAdd(x, FNeg(y))

\* x * y
FMul(x, y) ==
    IF x.m = <<>> \/ y.m = <<>> THEN FZero
    ELSE FRound(x.s * y.s, BMul(x.m, y.m), x.e + y.e, FALSE)

GuardBits == 72

\* x / d for a machine integer 0 < d < 2^17
FDivInt(x, d) ==
    LET qr == BDivSmall(BShl(x.m, GuardBits), d)
    IN  FRound(x.s, qr.q, x.e - GuardBits, qr.r # 0)

\* the literal 0.9
F09 == Float(1, <<3277, 13107, 3276, 1843>>, 0 - MantissaBits)

\* round(x, ndigits) in units of 10^-ndigits: the integer nearest x * 10^ndigits,
\* the even one when x lies exactly midway
FRoundNd(x, ndigits) ==
    LET n == BMulSmall(x.m, Pow10(ndigits))
        k == 0 - x.e
        q == BToInt(BShr(n, k))
        c == BHalf(n, k)
        a == IF x.e >= 0 THEN BToInt(BShl(n, x.e))
             ELSE IF c = 1 THEN q + 1
             ELSE IF c = 0 THEN q + (q % 2)
             ELSE q
    IN  x.s * a

-----------------------------------------------------------------------------
(* Rounding and the statistics of a sample *)

\* the real number num/den, den > 0; where it stands for a float, the float is
\* the double nearest to it
Frac(num, den) == [num |-> num, den |-> den]

\* float(num) / den, for 0 < den < 2^17
ToFloat(x) == FDivInt(FInt(x.num), x.den)

\* round(f, ndigits) in units of 10^-ndigits, for a float f that differs from
\* the real number x by a few units of the last place: f and x round alike
\* unless x lies exactly midway between two multiples of 10^-ndigits, and there
\* the double f is what is rounded
round_float(x, f, ndigits) ==
    LET n == (IF x.num < 0 THEN 0 - x.num ELSE x.num) * Pow10(ndigits)
        q == n \div x.den
        r == n % x.den
    IN  IF 2 * r = x.den THEN FRoundNd(f, ndigits)
        ELSE IF x.num < 0 THEN 0 - (IF 2 * r > x.den THEN q + 1 ELSE q)
        ELSE IF 2 * r > x.den THEN q + 1 ELSE q

\* x lies exactly midway between two multiples of 10^-ndigits
Meio(x, ndigits) ==
    2 * (((IF x.num < 0 THEN 0 - x.num ELSE x.num) * Pow10(ndigits)) % x.den) = x.den

\* round(num / den, ndigits), den > 0, in units of 10^-ndigits
RoundDiv(num, den, ndigits) ==
    round_float(Frac(num, den), FDivInt(FInt(num), den), ndigits)

_ratio_mut_trunca(num, den, ndigits) ==
    IF den # 0 THEN (num * Pow10(ndigits)) \div den ELSE 0

_ratio(num, den, ndigits) == IF den # 0 THEN RoundDiv(num, den, ndigits) ELSE 0

\* round(x, 2), in hundredths, of the float of one division
round2(x) == RoundDiv(x.num, x.den, 2)

\* the numerators of a sample whose values share one denominator, and that
\* denominator
nums_of(arr) == [i \in DOMAIN arr |-> arr[i].num]
den_of(arr) == IF arr = <<>> THEN 1 ELSE arr[1].den

RECURSIVE SumSeq(_)
SumSeq(q) == IF q = <<>> THEN 0 ELSE Head(q) + SumSeq(Tail(q))

RECURSIVE FSum(_, _)
\* sum(arr) of a list of floats: the additions run left to right from 0, each
\* rounded (the built-in sum of CPython 3.11)
FSum(arr, acc) ==
    IF arr = <<>> THEN acc ELSE FSum(Tail(arr), FAdd(acc, ToFloat(Head(arr))))

RemoveAt(q, i) == [j \in 1..(Len(q) - 1) |-> IF j < i THEN q[j] ELSE q[j + 1]]

RECURSIVE sorted(_)
\* sorted(...) of a list of numbers
sorted(q) ==
    IF q = <<>> THEN <<>>
    ELSE LET i == CHOOSE k \in 1..Len(q) : \A j \in 1..Len(q) : q[k] <= q[j]
         IN  <<q[i]>> \o sorted(RemoveAt(q, i))

p90_mut_nearest(valores) ==
    IF valores = <<>> THEN FZero
    ELSE LET v == sorted(nums_of(valores))
             d == den_of(valores)
             k10 == 9 * (Len(v) - 1)
             f == k10 \div 10
             c == IF k10 % 10 = 0 THEN f ELSE f + 1
         IN  IF f = c THEN ToFloat(Frac(v[f + 1], d))
             ELSE IF k10 % 10 >= 5 THEN ToFloat(Frac(v[c + 1], d))
             ELSE ToFloat(Frac(v[f + 1], d))

\* p90 of utils/time.py, the float it returns: 0.0 for an empty list, else with
\* k = 0.9 * (n - 1), f = floor(k) and c = ceil(k) the value valores[int(k)] when
\* f = c and valores[f] + (k - f) * (valores[c] - valores[f]) otherwise, every
\* operation rounded as the doubles of the source are; f and c are taken from
\* k in tenths (k10), and the list is indexed from 1
p90(valores) ==
    IF valores = <<>> THEN FZero
    ELSE LET v == sorted(nums_of(valores))
             d == den_of(valores)
             k10 == 9 * (Len(v) - 1)
             f == k10 \div 10
             c == IF k10 % 10 = 0 THEN f ELSE f + 1
             k == FMul(F09, FInt(Len(v) - 1))
             vf == ToFloat(Frac(v[f + 1], d))
             vc == ToFloat(Frac(v[c + 1], d))
         IN  IF f = c THEN vf
             ELSE FAdd(vf, FMul(FSub(k, FInt(f)), FSub(vc, vf)))

\* the real number the interpolation of p90 stands for, which the float p90
\* returns may miss by a few units of the last place
p90_exato(valores) ==
    LET v == sorted(nums_of(valores))
        d == den_of(valores)
        k10 == 9 * (Len(v) - 1)
        f == k10 \div 10
        c == IF k10 % 10 = 0 THEN f ELSE f + 1
    IN  IF f = c THEN Frac(v[f + 1], d)
        ELSE Frac(10 * v[f + 1] + (k10 - 10 * f) * (v[c + 1] - v[f + 1]), 10 * d)

\* statistics.median of a non-empty sample, as a real number
median(arr) ==
    LET v == sorted(nums_of(arr))
        n == Len(v)
        i == n \div 2
    IN  IF n % 2 = 1 THEN Frac(v[i + 1], den_of(arr))
        ELSE Frac(v[i] + v[i + 1], 2 * den_of(arr))

\* the float statistics.median returns: data[n // 2], or
\* (data[i - 1] + data[i]) / 2
median_float(arr) ==
    LET v == sorted(nums_of(arr))
        n == Len(v)
        i == n \div 2
        d == den_of(arr)
    IN  IF n % 2 = 1 THEN ToFloat(Frac(v[i + 1], d))
        ELSE FDivInt(FAdd(ToFloat(Frac(v[i], d)), ToFloat(Frac(v[i + 1], d))), 2)

\* sum(arr) / len(arr), as a real number and as the float
mean(arr) == Frac(SumSeq(nums_of(arr)), Len(arr) * den_of(arr))
mean_float(arr) == FDivInt(FSum(arr, FInt(0)), Len(arr))

_stats_mut_mediana_baixa(arr) ==
    IF arr = <<>> THEN <<0, 0, 0>>
    ELSE <<round_float(mean(arr), mean_float(arr), 2),
           round2(Frac(sorted(nums_of(arr))[(Len(arr) + 1) \div 2], den_of(arr))),
           round_float(p90_exato(arr), p90(arr), 2)>>

\* (mean, median, p90), each in hundredths
_stats(arr) ==
    IF arr = <<>> THEN <<0, 0, 0>>
    ELSE <<round_float(mean(arr), mean_float(arr), 2),
           round_float(median(arr), median_float(arr), 2),
           round_float(p90_exato(arr), p90(arr), 2)>>

\* the list arr in the order ord, a permutation of its indices
Reordenada(arr, ord) == [i \in DOMAIN arr |-> arr[ord[i]]]

\* _stats of the values of arr in every order a cursor may return them in: the
\* median and p90 sort the list, the mean adds it up in the order it has, and
\* the sums of different orders may lie on either side of a midway point
_stats_ordens(arr) ==
    IF arr # <<>> /\ Meio(mean(arr), 2)
    THEN {_stats(Reordenada(arr, ord)) : ord \in Permutations(DOMAIN arr)}
    ELSE {_stats(arr)}

_normaliza_destino(s) ==
    LET dest == lower_strip(OrStr(s.destino_alta, ""))
        dest2 == lower_strip(OrStr(s.desfecho, "alta"))
    IN  IF dest # "" THEN dest
        ELSE IF dest2 = "alta" THEN "enfermaria"
        ELSE IF dest2 = "obito" THEN "obito"
        ELSE IF dest2 = "transferencia" THEN "outro_hospital"
        ELSE OrStr(dest2, "enfermaria")

\* the exception None.lower() raises
AttributeError == "<AttributeError>"

\* _normaliza_destino of src/app/indicadores/gestao.py: s.get("desfecho", "alta")
\* gives None for a key that is present with the value None
_normaliza_destino_app(s) ==
    LET dest == lower_strip(OrStr(s.destino_alta, ""))
    IN  IF dest # "" THEN dest
        ELSE IF s.desfecho = NoneStr THEN AttributeError
        ELSE LET dest2 == lower_strip(s.desfecho)
             IN  IF dest2 = "alta" THEN "enfermaria"
                 ELSE IF dest2 = "obito" THEN "obito"
                 ELSE IF dest2 = "transferencia" THEN "outro_hospital"
                 ELSE OrStr(dest2, "enfermaria")

\* the database handle: the collections as they are when the invocation reads them
get_db ==
    [internacoes |-> internacoes, estadas |-> estadas, ventilacao |-> ventilacao,
     antibioticos_uso |-> antibioticos_uso, antibiotico_periodos |-> antibiotico_periodos,
     paciente_dia_setor |-> paciente_dia_setor, kpi_cti_gestao |-> kpi_cti_gestao,
     cti_setores |-> cti_setores, setores |-> setores,
     dispositivo_uso |-> dispositivo_uso, labs |-> labs]

-----------------------------------------------------------------------------
(* build_kpi_cti_gestao, section 0: presence cohort and LOS in the period *)

find_estadas_mut_qualquer_setor(db, id_setor, inicio_inclusivo, fim_exclusivo) ==
    {e \in db.estadas :
        /\ e.inicio.k = "aware" /\ e.inicio.t < fim_exclusivo.t
        /\ \/ e.fim.k = "aware" /\ e.fim.t >= inicio_inclusivo.t
           \/ e.fim.k = "none"}

\* db[COL_EST].find({...}): the stays of the sector that touch the period
find_estadas(db, id_setor, inicio_inclusivo, fim_exclusivo) ==
    {e \in db.estadas :
        /\ e.id_setor = id_setor
        /\ e.inicio.k = "aware" /\ e.inicio.t < fim_exclusivo.t
        /\ \/ e.fim.k = "aware" /\ e.fim.t >= inicio_inclusivo.t
           \/ e.fim.k = "none"}

coorte_ids_of(found) == {e.id_internacao : e \in {x \in found : x.id_internacao # ""}}

\* _overlap_seconds for the stay or period e, with the reading its call takes
overlap_de(e, b_start, b_end, clock) ==
    _overlap_seconds(e.inicio, e.fim, b_start, b_end, leitura(clock, e._id, 0))

RECURSIVE SumOverlap(_, _, _, _)
\* the sum of the positive overlaps of the documents S; the terms are whole
\* numbers of seconds, which the float additions of the source keep exact
SumOverlap(S, b_start, b_end, clock) ==
    IF S = {} THEN 0
    ELSE LET e == CHOOSE x \in S : TRUE
             sec == overlap_de(e, b_start, b_end, clock)
         IN  (IF sec > 0 THEN sec ELSE 0)
             + SumOverlap(S \ {e}, b_start, b_end, clock)

\* the dict secs_no_setor after the loop of lines 131-137
secs_no_setor_of(found, b_start, b_end, clock) ==
    LET keyed == {e \in found : e.id_internacao # ""}
        pos == {e \in keyed : overlap_de(e, b_start, b_end, clock) > 0}
    IN  [iid \in {e.id_internacao : e \in pos} |->
            SumOverlap({e \in keyed : e.id_internacao = iid}, b_start, b_end, clock)]

\* s / 86400.0, as the exact quotient
los_periodo_d_of(secs) == [iid \in DOMAIN secs |-> [num |-> secs[iid], den |-> SecsPerDay]]

-----------------------------------------------------------------------------
(* section 1: discharges in the period, mortality, readmission, destination *)

\* the $lookup into estadas_setor: stays of the admission in the sector, at any time
passou_setor(db, id_internacao, id_setor) ==
    {e \in db.estadas : e.id_internacao = id_internacao /\ e.id_setor = id_setor}

alta_no_periodo_mut_lte(s, inicio_inclusivo, fim_exclusivo) ==
    /\ s.alta_ts.k = "aware"
    /\ s.alta_ts.t >= inicio_inclusivo.t
    /\ s.alta_ts.t <= fim_exclusivo.t

\* {"alta_ts": {"$gte": inicio_inclusivo, "$lt": fim_exclusivo}}
alta_no_periodo(s, inicio_inclusivo, fim_exclusivo) ==
    /\ s.alta_ts.k = "aware"
    /\ s.alta_ts.t >= inicio_inclusivo.t
    /\ s.alta_ts.t < fim_exclusivo.t

saidas_of_mut_presenca(db, id_setor, inicio_inclusivo, fim_exclusivo) ==
    {s \in db.internacoes :
        \/ /\ alta_no_periodo(s, inicio_inclusivo, fim_exclusivo)
           /\ passou_setor(db, s.id_internacao, id_setor) # {}
        \/ s.id_internacao \in
              coorte_ids_of(find_estadas(db, id_setor, inicio_inclusivo, fim_exclusivo))}

\* the pipeline of lines 147-170
saidas_of(db, id_setor, inicio_inclusivo, fim_exclusivo) ==
    {s \in db.internacoes :
        /\ alta_no_periodo(s, inicio_inclusivo, fim_exclusivo)
        /\ passou_setor(db, s.id_internacao, id_setor) # {}}

readm_base_mut_any_desfecho(db, id_setor, inicio_inclusivo, fim_exclusivo) ==
    {s \in db.internacoes :
        /\ alta_no_periodo(s, inicio_inclusivo, fim_exclusivo)
        /\ passou_setor(db, s.id_internacao, id_setor) # {}}

\* the first three stages of the readmission pipeline
readm_base(db, id_setor, inicio_inclusivo, fim_exclusivo) ==
    {s \in db.internacoes :
        /\ alta_no_periodo(s, inicio_inclusivo, fim_exclusivo)
        /\ s.desfecho = "alta"
        /\ passou_setor(db, s.id_internacao, id_setor) # {}}

NoInt == [_id |-> "", id_internacao |-> "", id_paciente |-> "", admissao_ts |-> None,
          alta_ts |-> None, desfecho |-> NoneStr, destino_alta |-> NoneStr]

\* the documents {$sort: {admissao_ts: 1}}, {$limit: 1} may leave in prox_int:
\* any of the patient's admissions with the least admissao_ts after the discharge
prox_int_candidates(db, s) ==
    LET later == {n \in db.internacoes :
                    /\ n.id_paciente = s.id_paciente
                    /\ n.admissao_ts.k = "aware"
                    /\ n.admissao_ts.t > s.alta_ts.t}
    IN  {n \in later : \A m \in later : n.admissao_ts.t <= m.admissao_ts.t}

\* every outcome of the lookup over the base: base -> prox_int (NoInt when absent)
prox_int_choices(db, base) ==
    {f \in [base -> db.internacoes \cup {NoInt}] :
        \A s \in base :
            IF prox_int_candidates(db, s) = {} THEN f[s] = NoInt
            ELSE f[s] \in prox_int_candidates(db, s)}

\* $addFields horas: hours to the next admission, None unless it passed the sector
horas_of(db, s, prox, id_setor) ==
    IF prox # NoInt /\ passou_setor(db, prox.id_internacao, id_setor) # {}
    THEN Num(prox.admissao_ts.t - s.alta_ts.t)
    ELSE None

\* the $cond of the $group stage
readmitida(db, s, prox, id_setor) ==
    LET horas == horas_of(db, s, prox, id_setor)
    IN  horas.k # "none" /\ horas.t <= Limite48h

destino_counts_of(saidas) ==
    [dest \in {_normaliza_destino(s) : s \in saidas} |->
        Cardinality({s \in saidas : _normaliza_destino(s) = dest})]

-----------------------------------------------------------------------------
(* section 2: ventilation of the cohort, reintubation within 48 h *)

RECURSIVE SumF(_, _)
SumF(f, S) ==
    IF S = {} THEN 0
    ELSE LET x == CHOOSE y \in S : TRUE IN f[x] + SumF(f, S \ {x})

RECURSIVE coerced(_)
\* [_coerce_dt(x) for x in (field or []) if _coerce_dt(x)], as hours
coerced(q) ==
    IF q = <<>> THEN <<>>
    ELSE LET c == _coerce_dt(Head(q))
         IN  (IF Truthy(c) THEN <<c.t>> ELSE <<>>) \o coerced(Tail(q))

prox_intubacao_mut_ge(intu, e) ==
    LET K == {k \in 1..Len(intu) : intu[k] >= e}
    IN  IF K = {} THEN None
        ELSE Dt(intu[CHOOSE k \in K : \A j \in K : k <= j])

\* next((i for i in intu if i and e and i > e), None), intu sorted
prox_intubacao(intu, e) ==
    LET K == {k \in 1..Len(intu) : intu[k] > e}
    IN  IF K = {} THEN None
        ELSE Dt(intu[CHOOSE k \in K : \A j \in K : k <= j])

\* the test of line 315 for one extubation
reintubada(intu, e) ==
    LET prox == prox_intubacao(intu, e)
    IN  Truthy(prox) /\ diferenca_horas(Dt(e), prox) <= Limite48h

\* the extubations of one record the loop of lines 313-316 counts (by position)
reint_of(intu, ext) == Cardinality({k \in 1..Len(ext) : reintubada(intu, ext[k])})

\* fim_p of line 305: the end of a ventilation period, now_utc when it has none
fim_p_of(p, now_utc) == IF Truthy(p.fim) THEN _coerce_dt(p.fim) ELSE Dt(now_utc)

RECURSIVE vent_total_secs(_, _, _, _, _, _)
\* lines 302-306 for the periods per[i], per[i + 1], ... of the document id
vent_total_secs(id, per, i, b_start, b_end, clock) ==
    IF i > Len(per) THEN 0
    ELSE _overlap_seconds(_coerce_dt(per[i].inicio), fim_p_of(per[i], clock.now_utc),
                          b_start, b_end, leitura(clock, id, i))
         + vent_total_secs(id, per, i + 1, b_start, b_end, clock)

\* the dicts the comprehension of lines 284-287 may build: the cursor returns the
\* admission documents of the cohort in an order the query does not fix, and of
\* the documents that share an id_internacao the last one returned stays
it_map_choices(db, coorte_ids) ==
    LET docs == {x \in db.internacoes : x.id_internacao \in coorte_ids}
    IN  {f \in [{x.id_internacao : x \in docs} -> docs] :
            \A iid \in DOMAIN f : f[iid].id_internacao = iid}

\* it_map.get(id) or {}
it_map_get(it_map, iid) == IF iid \in DOMAIN it_map THEN it_map[iid] ELSE NoInt

vent_row_mut_na_janela(v, it_map, b_start, b_end, clock) ==
    LET intu == sorted(coerced(v.intubacoes_ts))
        ext == sorted(coerced(v.extubacoes_ts))
        adm == _coerce_dt(it_map_get(it_map, v.id_internacao).admissao_ts)
        dentro == intu # <<>> /\ Truthy(adm)
                      /\ b_start.t <= intu[1] /\ intu[1] < b_end.t
    IN  [intu |-> intu,
         ext |-> ext,
         intubado |-> dentro,
         tt_int_h |-> IF dentro THEN diferenca_horas(adm, Dt(intu[1])) ELSE 0,
         total_secs |-> vent_total_secs(v._id, v.periodos, 1, b_start, b_end, clock),
         n_ext |-> Len(ext),
         reint |-> reint_of(intu, ext)]

\* what the loop of lines 289-316 derives from one ventilation document
vent_row(v, it_map, b_start, b_end, clock) ==
    LET intu == sorted(coerced(v.intubacoes_ts))
        ext == sorted(coerced(v.extubacoes_ts))
        adm == _coerce_dt(it_map_get(it_map, v.id_internacao).admissao_ts)
    IN  [intu |-> intu,
         ext |-> ext,
         intubado |-> intu # <<>> /\ Truthy(adm),
         tt_int_h |-> IF intu # <<>> /\ Truthy(adm)
                      THEN diferenca_horas(adm, Dt(intu[1])) ELSE 0,
         total_secs |-> vent_total_secs(v._id, v.periodos, 1, b_start, b_end, clock),
         n_ext |-> Len(ext),
         reint |-> reint_of(intu, ext)]

vents_of_mut_todas(db, coorte_ids) == db.ventilacao

\* db[COL_VENT].find({"id_internacao": {"$in": list(coorte_ids)}}), run only
\* when coorte_ids is not empty
vents_of(db, coorte_ids) == {v \in db.ventilacao : v.id_internacao \in coorte_ids}

-----------------------------------------------------------------------------
(* section 3: patient-days and devices, from the daily rows of the period *)

pd_rows_of_mut_todos_setores(db, id_setor, inicio_inclusivo, fim_exclusivo) ==
    {r \in db.paciente_dia_setor :
        /\ r.data.k = "aware"
        /\ r.data.t >= inicio_inclusivo.t
        /\ r.data.t < fim_exclusivo.t}

\* {"$match": {"id_setor": id_setor, "data": {"$gte": ..., "$lt": ...}}}
pd_rows_of(db, id_setor, inicio_inclusivo, fim_exclusivo) ==
    {r \in db.paciente_dia_setor :
        /\ r.id_setor = id_setor
        /\ r.data.k = "aware"
        /\ r.data.t >= inicio_inclusivo.t
        /\ r.data.t < fim_exclusivo.t}

\* $addToSet of the admission of every row whose flag is True, None removed
ids_com(rows, flag) == {r.id_internacao : r \in {x \in rows : x[flag] = TRUE}}

\* the $group and $project stages and lines 353-375: the counts and the sets of
\* distinct admissions, all zero and empty when no row matched
pd_of(rows) ==
    [pd_result |-> rows # {},
     patient_days |-> Cardinality(rows),
     cvc_days |-> Cardinality({r \in rows : r.cvc = TRUE}),
     foley_days |-> Cardinality({r \in rows : r.foley = TRUE}),
     art_days |-> Cardinality({r \in rows : r.art_line = TRUE}),
     total_pac_list |-> {r.id_internacao : r \in rows},
     vent_ids |-> ids_com(rows, "ventilado"),
     cvc_ids |-> ids_com(rows, "cvc"),
     foley_ids |-> ids_com(rows, "foley"),
     art_ids |-> ids_com(rows, "art_line")]

-----------------------------------------------------------------------------
(* section 4: antibiotics, days of therapy in the period (cohort only) *)

\* db[COL_AB_USO].find({"id_internacao": {"$in": list(coorte_ids)}})
ab_usos_of(db, coorte_ids) == {u \in db.antibioticos_uso : u.id_internacao \in coorte_ids}

\* db[COL_AB_PER].find({"id_ab_uso": {"$in": [...]}}), with by_ab_id.get(ab_id)
per_cur_of(db, ab_usos) ==
    {p \in db.antibiotico_periodos : \E u \in ab_usos : u._id = p.id_ab_uso}

\* base = by_ab_id.get(ab_id)
base_of(ab_usos, p) == CHOOSE u \in ab_usos : u._id = p.id_ab_uso

\* base.get("antibiotico") or "desconhecido"
ab_name_of(u) == OrStr(u.antibiotico, "desconhecido")

\* the periods that pass the test of lines 409-411
per_positivos(db, usos, b_start, b_end, clock) ==
    {p \in per_cur_of(db, usos) :
        overlap_de(p, b_start, b_end, clock) > 0}

\* dot_map after the loop, in seconds (dias = secs / 86400.0)
dot_map_of(db, usos, b_start, b_end, clock) ==
    LET pos == per_positivos(db, usos, b_start, b_end, clock)
    IN  [nome \in {ab_name_of(base_of(usos, p)) : p \in pos} |->
            SumOverlap({p \in pos : ab_name_of(base_of(usos, p)) = nome},
                       b_start, b_end, clock)]

exp_map_of_mut_periodos(db, usos, b_start, b_end, clock) ==
    LET pos == per_positivos(db, usos, b_start, b_end, clock)
    IN  [nome \in {ab_name_of(base_of(usos, p)) : p \in pos} |->
            {p._id : p \in {q \in pos : ab_name_of(base_of(usos, q)) = nome}}]

\* exp_map after the loop: the admissions exposed to each antibiotic
exp_map_of(db, usos, b_start, b_end, clock) ==
    LET pos == per_positivos(db, usos, b_start, b_end, clock)
    IN  [nome \in {ab_name_of(base_of(usos, p)) : p \in pos} |->
            {base_of(usos, p).id_internacao :
                p \in {q \in pos : ab_name_of(base_of(usos, q)) = nome}}]

RECURSIVE lista_de(_, _)
\* the list of the values f[x], x in S, in one of the orders the loop may meet
\* them in
lista_de(f, S) ==
    IF S = {} THEN <<>>
    ELSE LET x == CHOOSE y \in S : TRUE IN <<f[x]>> \o lista_de(f, S \ {x})

\* the terms dias = secs / 86400.0 that line 414 adds to dot_map[nome], by period
dot_parcelas_of(db, usos, b_start, b_end, clock) ==
    LET pos == per_positivos(db, usos, b_start, b_end, clock)
    IN  [nome \in {ab_name_of(base_of(usos, p)) : p \in pos} |->
            [p \in {q \in pos : ab_name_of(base_of(usos, q)) = nome} |->
                Frac(overlap_de(p, b_start, b_end, clock), SecsPerDay)]]

\* round(v, 2) of line 421 for one antibiotic, in hundredths: v is the float sum
\* of the terms in the order the cursor returned the periods in, which the
\* query does not fix, and the sums of different orders may lie on either side
\* of a midway point
dot_total_d_choices(parcelas) ==
    LET arr == lista_de(parcelas, DOMAIN parcelas)
        v == Frac(SumSeq(nums_of(arr)), SecsPerDay)
    IN  IF Meio(v, 2)
        THEN {FRoundNd(FSum(Reordenada(arr, ord), FInt(0)), 2) :
                 ord \in Permutations(DOMAIN arr)}
        ELSE {round_float(v, FSum(arr, FInt(0)), 2)}

\* the rounded totals the comprehension of line 421 may hold, by antibiotic
dot_total_choices(dot_parcelas) ==
    {t \in [DOMAIN dot_parcelas ->
                UNION {dot_total_d_choices(dot_parcelas[k]) : k \in DOMAIN dot_parcelas}] :
        \A k \in DOMAIN t : t[k] \in dot_total_d_choices(dot_parcelas[k])}

\* the list items of line 421, before the sort
items_of(dot_total, exp_map) ==
    {[antibiotico |-> k,
      dot_total_d |-> dot_total[k],
      pacientes_expostos |-> Cardinality(exp_map[k])] : k \in DOMAIN dot_total}

\* items.sort(key=dot_total_d, reverse=True): the sort is stable and the order of
\* equal keys is the order the cursor returned the periods in, which the query
\* does not fix
ranking_choices(items) ==
    {q \in [1..Cardinality(items) -> items] :
        /\ \A i, j \in 1..Cardinality(items) : i # j => q[i] # q[j]
        /\ \A i, j \in 1..Cardinality(items) :
              i < j => q[i].dot_total_d >= q[j].dot_total_d}

-----------------------------------------------------------------------------
(* build_kpi_cti_gestao: the locals of an invocation *)

Janelas == {<<Dt(HoursPerDay), Dt(2 * HoursPerDay)>>}

\* the readings of the wall clock at which a report is requested or computed
Leituras == {HoursPerDay, 2 * HoursPerDay - 1, 2 * HoursPerDay, 3 * HoursPerDay}

\* the calls of _overlap_seconds that reach line 62, by the loop that makes
\* them: over the stays (line 135), over the periods of the ventilation
\* documents (line 306) and over the dosing periods (line 409)
chamadas62(found, vents, per_cur, ini, fim, now_utc) ==
    [est |-> {<<e._id, 0>> : e \in {x \in found :
                 x.id_internacao # "" /\ le_relogio(x.inicio, x.fim, ini, fim)}},
     vent |-> UNION {{<<v._id, i>> : i \in {j \in 1..Len(v.periodos) :
                         le_relogio(_coerce_dt(v.periodos[j].inicio),
                                    fim_p_of(v.periodos[j], now_utc), ini, fim)}} :
                     v \in vents},
     ab |-> {<<p._id, 0>> : p \in {q \in per_cur : le_relogio(q.inicio, q.fim, ini, fim)}}]

\* the latest reading of the wall clock an invocation has taken
ultima(clock) ==
    LET lidas == {clock.now_utc} \cup {clock.l62[k] : k \in DOMAIN clock.l62}
    IN  CHOOSE g \in lidas : \A x \in lidas : x <= g

\* the readings the calls K may take at line 62 in a loop that runs after the
\* readings of clock were taken and ends when the wall clock reads ate: a
\* reading is not earlier than one taken before the loop and not later than
\* ate, and the calls of one loop are made in the order of the cursor, which
\* the query does not fix
leituras62(K, clock, ate) ==
    [K -> {g \in Leituras \cup {ate} : ultima(clock) <= g /\ g <= ate}]

\* clock with the readings f of one more loop
Lido(clock, f) == Relogio(clock.now_utc, f @@ clock.l62)

\* diferenca_dias(a, b), as the exact quotient
diferenca_dias(a, b) == Frac(total_seconds(a, b), SecsPerDay)

\* los_alta_list of lines 179-182
los_alta_list_of(saidas) ==
    LET S == {x \in saidas : Truthy(_coerce_dt(x.admissao_ts))
                              /\ Truthy(_coerce_dt(x.alta_ts))}
    IN  lista_de([x \in S |-> diferenca_dias(_coerce_dt(x.admissao_ts),
                                              _coerce_dt(x.alta_ts))], S)

\* lines 116-140: the locals l after the stays were found and summed, the
\* calls of line 135 taking the readings of clock
secao_estadas(db, l, clock) ==
    LET found == find_estadas(db, l.id_setor, l.inicio_inclusivo, l.fim_exclusivo)
        secs == secs_no_setor_of(found, l.inicio_inclusivo, l.fim_exclusivo, clock)
    IN  [clock |-> clock,
         estadas |-> found,
         coorte_ids |-> coorte_ids_of(found),
         secs_no_setor |-> secs,
         los_periodo_d |-> los_periodo_d_of(secs)] @@ l

\* lines 147-175
secao_saidas(db, l) ==
    [saidas |-> saidas_of(db, l.id_setor, l.inicio_inclusivo, l.fim_exclusivo)] @@ l

\* lines 189-266, prox_int being the outcome of the $lookup of lines 203-215
secao_readm(db, l, prox_int) ==
    LET base == readm_base(db, l.id_setor, l.inicio_inclusivo, l.fim_exclusivo)
    IN  [readm_base |-> base,
         prox_int |-> prox_int,
         readmitidas |-> {s \in base : readmitida(db, s, prox_int[s], l.id_setor)},
         destino_counts |-> destino_counts_of(l.saidas)] @@ l

\* lines 279-282: the list vents
secao_vents(db, l) == [vent_docs |-> vents_of(db, l.coorte_ids)] @@ l

\* lines 284-316, it_map being the dict the comprehension of line 284 built and
\* the calls of line 306 taking the readings of clock
secao_it_map(l, it_map, clock) ==
    [clock |-> clock,
     it_map |-> it_map,
     vents |-> [v \in l.vent_docs |->
                   vent_row(v, it_map, l.inicio_inclusivo, l.fim_exclusivo, clock)]] @@ l

\* lines 325-375
secao_pd(db, l) ==
    [pd |-> pd_of(pd_rows_of(db, l.id_setor, l.inicio_inclusivo, l.fim_exclusivo))] @@ l

\* lines 384-390: the list ab_usos
secao_ab_usos(db, l) == [ab_usos |-> ab_usos_of(db, l.coorte_ids)] @@ l

\* lines 393-418, the calls of line 409 taking the readings of clock
secao_per_cur(db, l, clock) ==
    [clock |-> clock,
     dot_parcelas |-> dot_parcelas_of(db, l.ab_usos, l.inicio_inclusivo,
                                      l.fim_exclusivo, clock),
     dot_map |-> dot_map_of(db, l.ab_usos, l.inicio_inclusivo, l.fim_exclusivo, clock),
     exp_map |-> exp_map_of(db, l.ab_usos, l.inicio_inclusivo, l.fim_exclusivo, clock)] @@ l

\* lines 271-276, 318 and 319 when the test of line 278 fails: no ventilation
\* document is read
sem_ventilacao ==
    [vent_docs |-> {}, it_map |-> <<>>, vents |-> <<>>,
     st_h |-> <<0, 0, 0>>, st_v |-> <<0, 0, 0>>]

\* lines 380 and 381 when the test of line 383 or that of line 392 fails: no
\* dosing period is read
sem_periodos == [dot_parcelas |-> <<>>, dot_map |-> <<>>, exp_map |-> <<>>, ranking |-> <<>>]

\* the samples handed to _stats at lines 141, 183, 318 and 319, in one of the
\* orders the loops may have built them in
amostra_de(l, nome) ==
    LET Vi == {v \in DOMAIN l.vents : l.vents[v].intubado}
        Vv == {v \in DOMAIN l.vents : l.vents[v].total_secs > 0}
    IN  CASE nome = "los" -> lista_de(l.los_periodo_d, DOMAIN l.los_periodo_d)
          [] nome = "los_alta" -> los_alta_list_of(l.saidas)
          [] nome = "st_h" -> lista_de([v \in Vi |-> Frac(l.vents[v].tt_int_h, 1)], Vi)
          [] nome = "st_v" ->
                lista_de([v \in Vv |-> Frac(l.vents[v].total_secs, SecsPerDay)], Vv)

\* the sorted lists line 423 may leave in ranking
rankings(l) ==
    UNION {ranking_choices(items_of(t, l.exp_map)) : t \in dot_total_choices(l.dot_parcelas)}

\* the locals of one invocation that the snapshot and what the invocation met
\* determine: clock holds the readings of the wall clock, it_map is the dict of
\* lines 284-287 and prox_int the outcome of the $lookup of lines 203-215
locals_of(db, id_setor, ini, fim, clock, it_map, prox_int) ==
    LET l0 == [built |-> TRUE,
               id_setor |-> id_setor,
               inicio_inclusivo |-> ini,
               fim_exclusivo |-> fim,
               now_utc |-> clock.now_utc,
               clock |-> clock]
        l1 == secao_readm(db, secao_saidas(db, secao_estadas(db, l0, clock)), prox_int)
        l2 == secao_pd(db, secao_it_map(secao_vents(db, l1), it_map, clock))
    IN  secao_per_cur(db, secao_ab_usos(db, l2), clock)

\* the rounded figures of an invocation with the locals l, which depend on the
\* order the cursors returned the documents in: the four triples of _stats
\* (lines 141, 183, 318 and 319) and the sorted list of line 423
resultados(l) ==
    {[los |-> a, los_alta |-> b, st_h |-> c, st_v |-> d, ranking |-> r] :
        a \in _stats_ordens(amostra_de(l, "los")),
        b \in _stats_ordens(amostra_de(l, "los_alta")),
        c \in _stats_ordens(amostra_de(l, "st_h")),
        d \in _stats_ordens(amostra_de(l, "st_v")),
        r \in rankings(l)}

\* the readings one invocation over the snapshot db may take when the wall
\* clock reads the instants R while it runs: line 110 comes first, no reading
\* is earlier than one taken before it, and the loops run in the order stays,
\* ventilation, antibiotics
relogios(db, id_setor, ini, fim, R) ==
    LET found == find_estadas(db, id_setor, ini, fim)
        vents == vents_of(db, coorte_ids_of(found))
        per_cur == per_cur_of(db, ab_usos_of(db, coorte_ids_of(found)))
    IN  UNION {LET K == chamadas62(found, vents, per_cur, ini, fim, now_utc)
               IN  {Relogio(now_utc, l62) :
                       l62 \in {f \in [K.est \cup K.vent \cup K.ab ->
                                           {g \in R : now_utc <= g}] :
                                   /\ \A a \in K.est, b \in K.vent \cup K.ab : f[a] <= f[b]
                                   /\ \A a \in K.vent, b \in K.ab : f[a] <= f[b]}} :
                  now_utc \in R}

\* the locals of every complete invocation over the snapshot db that reads the
\* wall clock at instants of R
invocacoes(db, id_setor, ini, fim, R) ==
    UNION {LET l == locals_of(db, id_setor, ini, fim, clock, it_map, prox_int)
           IN  {r @@ l : r \in resultados(l)} :
              clock \in relogios(db, id_setor, ini, fim, R),
              it_map \in it_map_choices(db,
                            coorte_ids_of(find_estadas(db, id_setor, ini, fim))),
              prox_int \in prox_int_choices(db, readm_base(db, id_setor, ini, fim))}

\* the returned document, the groups "geral" and "dispositivos" laid out flat;
\* rounded figures are integers in hundredths (statistics, DOT) or in 10^-4 (rates)
document_of(l) ==
    LET quantidade_saidas == Cardinality(l.saidas)
        los == l.los
        los_alta == l.los_alta
        Vi == {v \in DOMAIN l.vents : l.vents[v].intubado}
        Vv == {v \in DOMAIN l.vents : l.vents[v].total_secs > 0}
        st_h == l.st_h
        st_v == l.st_v
        obitos == Cardinality({s \in l.saidas : lower(OrStr(s.desfecho, "")) = "obito"})
        altas_utilizadas == Cardinality(l.readm_base)
        readmissoes == Cardinality(l.readmitidas)
        total_dest == IF quantidade_saidas = 0 THEN 1 ELSE quantidade_saidas
        V == DOMAIN l.vents
        reint == SumF([v \in V |-> l.vents[v].reint], V)
        total_ext == SumF([v \in V |-> l.vents[v].n_ext], V)
        total_pac == Cardinality(l.pd.total_pac_list)
        \* {"pacientes": len(ids), "total_pacientes": total_pac, "percentual": ...}
        prevalencia(ids) ==
            [pacientes |-> Cardinality(ids), total_pacientes |-> total_pac,
             percentual |-> _ratio(Cardinality(ids), total_pac, 4)]
        \* {"..._days": days, "patient_days": patient_days, "percentual": ...}
        utilizacao(days) ==
            [days |-> days, patient_days |-> l.pd.patient_days,
             percentual |-> _ratio(days, l.pd.patient_days, 4)]
    IN  [built |-> TRUE,
         periodo |-> [inicio |-> data_iso_utc(l.inicio_inclusivo),
                      fim |-> data_iso_utc(l.fim_exclusivo)],
         id_setor |-> l.id_setor,
         coorte |-> [pacientes_no_periodo |-> Cardinality(DOMAIN l.secs_no_setor)],
         los_periodo_setor |->
             [media_d |-> los[1], mediana_d |-> los[2], p90_d |-> los[3],
              pacientes_no_periodo |-> Cardinality(DOMAIN l.secs_no_setor)],
         los_por_alta_no_periodo |->
             [media_d |-> los_alta[1], mediana_d |-> los_alta[2], p90_d |-> los_alta[3],
              quantidade_saidas |-> quantidade_saidas],
         mortalidade |-> [obitos |-> obitos, saidas |-> quantidade_saidas,
                          taxa |-> _ratio(obitos, quantidade_saidas, 4)],
         readmissao_48h |-> [readmissoes |-> readmissoes, altas |-> altas_utilizadas,
                             taxa |-> _ratio(readmissoes, altas_utilizadas, 4)],
         reintubacao_48h |-> [reintubacoes |-> reint, extubacoes |-> total_ext,
                              taxa |-> _ratio(reint, total_ext, 4)],
         destino_alta |->
             [dest \in DOMAIN l.destino_counts |->
                 [quantidade |-> l.destino_counts[dest],
                  percentual |-> _ratio(l.destino_counts[dest], total_dest, 4)]],
         antibioticos |->
             [ranking |-> l.ranking,
              dot_por_antibiotico |->
                  [i \in DOMAIN l.ranking |->
                      [antibiotico |-> l.ranking[i].antibiotico,
                       dot_total_d |-> l.ranking[i].dot_total_d]]],
         tempo_ate_intubacao_h |->
             [media_h |-> st_h[1], mediana_h |-> st_h[2], p90_h |-> st_h[3],
              quantidade_intubados |-> Cardinality(Vi)],
         tempo_ventilacao_no_periodo |->
             [media_d |-> st_v[1], mediana_d |-> st_v[2], p90_d |-> st_v[3],
              quantidade_ventilados |-> Cardinality(Vv)],
         proporcao_pacientes_ventilados |->
             [pacientes_ventilados |-> Cardinality(l.pd.vent_ids),
              total_pacientes |-> total_pac,
              percentual |-> _ratio(Cardinality(l.pd.vent_ids), total_pac, 4)],
         utilizacao_cvc |-> utilizacao(l.pd.cvc_days),
         pacientes_com_cvc |-> prevalencia(l.pd.cvc_ids),
         utilizacao_foley |-> utilizacao(l.pd.foley_days),
         pacientes_com_foley |-> prevalencia(l.pd.foley_ids),
         utilizacao_art_line |-> utilizacao(l.pd.art_days),
         pacientes_com_art_line |-> prevalencia(l.pd.art_ids)]

-----------------------------------------------------------------------------
(* The connection singleton (db_connection.get_db), called from the worker  *)
(* threads: each read and each write of the globals _client and _db is one *)
(* step, and so is the round trip of the ping.                              *)

\* calls of get_db are started while fewer clients than this were constructed
MaxClientes == 3

\* the clients constructed and the pings that failed so far
Criados == SumF([t \in Threads |-> thr[t].criados], Threads)
Falhas == SumF([t \in Threads |-> thr[t].falhas], Threads)

\* an exception that leaves the function that raised it
Raise(exc) == [built |-> FALSE, exc |-> exc]

\* the steps of get_db leave everything but _client, _db and the threads alone
SoConexao ==
    UNCHANGED <<now, tz, call, ret, internacoes, estadas, ventilacao, antibioticos_uso,
                antibiotico_periodos, paciente_dia_setor, cti_setores, setores,
                   dispositivo_uso, labs, kpi_cti_gestao, doc, loc>>

\* a thread enters get_db
Chama(t) ==
    /\ thr[t].pc \in {"idle", "done"}
    /\ Criados < MaxClientes
    /\ thr' = [thr EXCEPT ![t].pc = "l22", ![t].v = None]
    /\ UNCHANGED <<_client, _db>>
    /\ SoConexao

\* line 22: if _db is not None
Testa(t) ==
    /\ thr[t].pc = "l22"
    /\ thr' = [thr EXCEPT ![t].pc = IF _db # None THEN "l23" ELSE "l35"]
    /\ UNCHANGED <<_client, _db>>
    /\ SoConexao

\* line 23: return _db, the handle the global names when the statement runs
Reutiliza(t) ==
    /\ thr[t].pc = "l23"
    /\ thr' = [thr EXCEPT ![t].pc = thr[t].ra, ![t].v = _db]
    /\ UNCHANGED <<_client, _db>>
    /\ SoConexao

\* lines 35-40: _client = MongoClient(...), which connects to nothing yet
Constroi(t) ==
    /\ thr[t].pc = "l35"
    /\ _client' = MongoClient(Criados + 1)
    /\ thr' = [thr EXCEPT ![t].pc = "l42", ![t].criados = @ + 1]
    /\ UNCHANGED _db
    /\ SoConexao

\* line 42: _client.admin.command("ping") returns, or raises and leaves get_db
Ping(t) ==
    /\ thr[t].pc = "l42"
    /\ \E ok \in BOOLEAN :
          thr' = IF ok
                 THEN [thr EXCEPT ![t].pc = "l43"]
                 ELSE [thr EXCEPT ![t].pc = "done",
                                  ![t].v = Raise("ServerSelectionTimeoutError"),
                                  ![t].falhas = @ + 1]
    /\ UNCHANGED <<_client, _db>>
    /\ SoConexao

\* line 43, the right-hand side: the global _client is read and _client[name]
\* makes the handle, which the thread holds until it is assigned
Indexa(t) ==
    /\ thr[t].pc = "l43"
    /\ thr' = [thr EXCEPT ![t].pc = "l43s", ![t].v = Database(_client)]
    /\ UNCHANGED <<_client, _db>>
    /\ SoConexao

\* line 43, the assignment: the handle the thread made is stored in the global
\* _db, whatever _client names by now
Atribui(t) ==
    /\ thr[t].pc = "l43s"
    /\ _db' = thr[t].v
    /\ thr' = [thr EXCEPT ![t].pc = "l44"]
    /\ UNCHANGED _client
    /\ SoConexao

\* line 44: return _db
Devolve(t) ==
    /\ thr[t].pc = "l44"
    /\ thr' = [thr EXCEPT ![t].pc = thr[t].ra, ![t].v = _db]
    /\ UNCHANGED <<_client, _db>>
    /\ SoConexao

-----------------------------------------------------------------------------
(* build_kpi_cti_gestao, step by step.  A worker thread of the server runs  *)
(* the invocation in a frame of its own.  A step is the answer of the        *)
(* storage to one blocking call together with the lines that follow it up   *)
(* to the next blocking call; between two steps of a thread the wall clock   *)
(* may advance and the other threads may run.                                *)

quadro_mut_partilhado(t) == 1

\* the frame that holds the parameters and locals of the call thread t runs
quadro(t) == t

\* a worker thread before its first call: req is what the report is computed
\* for, rb the line build_kpi_cti_gestao returns to, conc whether another
\* invocation was under way when this one began, l the locals of
\* build_kpi_cti_gestao, doc the document it returned and h the parameters and
\* locals of the handler of the endpoint
Parado ==
    Ocioso @@ [req |-> [id_setor |-> "", w |-> <<None, None>>],
               rb |-> "done", conc |-> FALSE, l |-> NoDoc, doc |-> NoDoc, h |-> NoDoc]

Parados == [t \in Threads |-> Parado]

\* the thread that serves the requests where they come one at a time
UmaThread == {t \in Threads : \A u \in Threads : t <= u}

\* a reading of the wall clock after the last instant of every snapshot
Depois == {(MaxDay + 1) * HoursPerDay + 1}

\* the reading of the clock at the end of the windows, one hour after the
\* invocations can first begin
FimDaJanela == {2 * HoursPerDay}

\* time passes, up to one of the readings R
Tick(R) ==
    /\ \E g \in R : g > now /\ now' = g
    /\ UNCHANGED <<tz, call, ret, internacoes, estadas, ventilacao,
                   antibioticos_uso, antibiotico_periodos, paciente_dia_setor, cti_setores, setores,
                   dispositivo_uso, labs,
                   kpi_cti_gestao, _client, _db, thr, doc, loc>>

\* thread t waits on the blocking call of line pc, which the storage answers,
\* and its frame holds the local campo that the lines before have assigned
Em(t, pc, campo) ==
    /\ thr[t].pc = pc
    /\ campo \in DOMAIN thr[quadro(t)].l

\* the call of thread t goes on to line pc with the locals l
Avanca(t, pc, l) ==
    /\ thr' = [thr EXCEPT ![t].pc = pc, ![quadro(t)].l = l]
    /\ UNCHANGED <<_client, _db>>
    /\ SoConexao

\* lines 85 and 100: a call with a sector and a window of J binds its
\* parameters and enters get_db
build_entra(t, J) ==
    /\ thr[t].pc = "idle"
    /\ \E id_setor \in Setores, w \in J :
          thr' = [thr EXCEPT
                    ![t].pc = "l22",
                    ![t].ra = "l103",
                    ![t].rb = "done",
                    ![t].req = [id_setor |-> id_setor, w |-> w],
                    ![t].conc = \E u \in Threads \ {t} : thr[u].pc \notin {"idle", "done"},
                    ![quadro(t)].l = [built |-> FALSE, id_setor |-> id_setor,
                                      inicio_inclusivo |-> w[1],
                                      fim_exclusivo |-> w[2]]]
    /\ UNCHANGED <<_client, _db>>
    /\ SoConexao

\* lines 103-108: each of the six calls of _resolve_col asks the server for the
\* names of its collections (line 76) and returns the first candidate
_resolve_col(t) ==
    LET seg == [l103 |-> "l104", l104 |-> "l105", l105 |-> "l106",
                l106 |-> "l107", l107 |-> "l108", l108 |-> "l110"]
    IN  /\ thr[t].pc \in DOMAIN seg
        /\ Em(t, thr[t].pc, "fim_exclusivo")
        /\ Avanca(t, seg[thr[t].pc], thr[quadro(t)].l)

\* line 110: now_utc = datetime.now(timezone.utc)
agora(t) ==
    /\ thr[t].pc = "l110"
    /\ "fim_exclusivo" \in DOMAIN thr[quadro(t)].l
    /\ Avanca(t, "l116", [now_utc |-> now, clock |-> Relogio(now, <<>>)]
                           @@ thr[quadro(t)].l)

\* lines 116-142: the stays are found, summed by admission and summarised
estadas_find(t) ==
    /\ Em(t, "l116", "now_utc")
    /\ LET l == thr[quadro(t)].l
           found == find_estadas(get_db, l.id_setor, l.inicio_inclusivo, l.fim_exclusivo)
           K == chamadas62(found, {}, {}, l.inicio_inclusivo, l.fim_exclusivo, l.now_utc)
       IN  \E f \in leituras62(K.est, l.clock, now) :
              LET l2 == secao_estadas(get_db, l, Lido(l.clock, f))
              IN  \E a \in _stats_ordens(amostra_de(l2, "los")) :
                     Avanca(t, "l147", [los |-> a] @@ l2)

\* lines 147-186: the discharges of the period
saidas_aggregate(t) ==
    /\ Em(t, "l147", "los")
    /\ LET l2 == secao_saidas(get_db, thr[quadro(t)].l)
       IN  \E b \in _stats_ordens(amostra_de(l2, "los_alta")) :
              Avanca(t, "l189", [los_alta |-> b] @@ l2)

\* lines 189-278: the readmissions and the destinations; the ventilation
\* section is entered when the cohort is not empty
readm_aggregate(t) ==
    /\ Em(t, "l189", "los_alta")
    /\ LET l == thr[quadro(t)].l
       IN  \E prox_int \in prox_int_choices(get_db,
                              readm_base(get_db, l.id_setor, l.inicio_inclusivo,
                                         l.fim_exclusivo)) :
              LET l2 == secao_readm(get_db, l, prox_int)
              IN  IF l2.coorte_ids # {} THEN Avanca(t, "l279", l2)
                  ELSE Avanca(t, "l325", sem_ventilacao @@ l2)

\* lines 279-282: the ventilation documents of the cohort
vents_find(t) ==
    /\ Em(t, "l279", "destino_counts")
    /\ Avanca(t, "l284", secao_vents(get_db, thr[quadro(t)].l))

\* lines 284-320: the admissions of the cohort, then the loop over the
\* ventilation documents
it_map_find(t) ==
    /\ Em(t, "l284", "vent_docs")
    /\ LET l == thr[quadro(t)].l
           K == chamadas62({}, l.vent_docs, {}, l.inicio_inclusivo, l.fim_exclusivo,
                           l.now_utc)
       IN  \E it_map \in it_map_choices(get_db, l.coorte_ids),
              f \in leituras62(K.vent, l.clock, now) :
              LET l2 == secao_it_map(l, it_map, Lido(l.clock, f))
              IN  \E c \in _stats_ordens(amostra_de(l2, "st_h")),
                     d \in _stats_ordens(amostra_de(l2, "st_v")) :
                     Avanca(t, "l325", [st_h |-> c, st_v |-> d] @@ l2)

\* lines 325-383: the daily rows of the period; the antibiotic section is
\* entered when the cohort is not empty
pd_aggregate(t) ==
    /\ Em(t, "l325", "st_v")
    /\ LET l2 == secao_pd(get_db, thr[quadro(t)].l)
       IN  IF l2.coorte_ids # {} THEN Avanca(t, "l384", l2)
           ELSE Avanca(t, "l430", [built |-> TRUE, ab_usos |-> {}] @@ sem_periodos @@ l2)

\* lines 384-392: the antibiotic usages of the cohort
ab_usos_find(t) ==
    /\ Em(t, "l384", "pd")
    /\ LET l2 == secao_ab_usos(get_db, thr[quadro(t)].l)
       IN  IF l2.ab_usos # {} THEN Avanca(t, "l393", l2)
           ELSE Avanca(t, "l430", [built |-> TRUE] @@ sem_periodos @@ l2)

\* lines 393-425: the loop over the cursor of the dosing periods, and the
\* sorted lists
per_cur_find(t) ==
    /\ Em(t, "l393", "ab_usos")
    /\ LET l == thr[quadro(t)].l
           K == chamadas62({}, {}, per_cur_of(get_db, l.ab_usos), l.inicio_inclusivo,
                           l.fim_exclusivo, l.now_utc)
       IN  \E f \in leituras62(K.ab, l.clock, now) :
              LET l2 == secao_per_cur(get_db, l, Lido(l.clock, f))
              IN  \E r \in rankings(l2) :
                     Avanca(t, "l430", [built |-> TRUE, ranking |-> r] @@ l2)

\* lines 430-526: the document is assembled from the locals the frame holds
\* and returned to the caller, at line rb
build_retorna(t) ==
    /\ thr[t].pc = "l430"
    /\ thr[quadro(t)].l.built
    /\ thr' = [thr EXCEPT ![t].pc = thr[t].rb,
                          ![quadro(t)].doc = document_of(thr[quadro(t)].l),
                          ![t].v = document_of(thr[quadro(t)].l)]
    /\ doc' = document_of(thr[quadro(t)].l)
    /\ loc' = thr[quadro(t)].l
    /\ UNCHANGED <<now, tz, call, ret, internacoes, estadas, ventilacao, antibioticos_uso,
                   antibiotico_periodos, paciente_dia_setor, cti_setores, setores,
                   dispositivo_uso, labs, kpi_cti_gestao, _client, _db>>

\* the worker thread is free for the next call
Repete(t) ==
    /\ thr[t].pc = "done"
    /\ thr' = [thr EXCEPT ![t].pc = "idle"]
    /\ UNCHANGED <<_client, _db>>
    /\ SoConexao

\* the steps every invocation takes, over a connection that is open
build_sem_coorte(t, J) ==
    \/ build_entra(t, J)
    \/ Testa(t)
    \/ Reutiliza(t)
    \/ _resolve_col(t)
    \/ agora(t)
    \/ estadas_find(t)
    \/ saidas_aggregate(t)
    \/ readm_aggregate(t)
    \/ pd_aggregate(t)
    \/ build_retorna(t)

\* the steps of the invocations over snapshots without antibiotic usages
build_sem_antibioticos(t, J) ==
    \/ build_sem_coorte(t, J)
    \/ vents_find(t)
    \/ it_map_find(t)
    \/ ab_usos_find(t)

\* one invocation, with id_setor and the window [w[1], w[2]) drawn from J
build_kpi(t, J) == build_sem_antibioticos(t, J) \/ per_cur_find(t)

build_kpi_cti_gestao(t) == build_kpi(t, Janelas)

-----------------------------------------------------------------------------
(* Snapshots.  In every snapshot a discharge is not before the admission, a *)
(* stay does not end before it starts and does not start before the         *)
(* admission it belongs to (the invariants of the data model).              *)

Internacao(id, iid, pac, adm, alta, desf, dest) ==
    [_id |-> id, id_internacao |-> iid, id_paciente |-> pac, admissao_ts |-> adm,
     alta_ts |-> alta, desfecho |-> desf, destino_alta |-> dest]

Estada(id, iid, setor, inicio, fim) ==
    [_id |-> id, id_internacao |-> iid, id_setor |-> setor,
     inicio |-> inicio, fim |-> fim]

Ventilacao(id, iid, intu, ext, per) ==
    [_id |-> id, id_internacao |-> iid, intubacoes_ts |-> intu,
     extubacoes_ts |-> ext, periodos |-> per]

Periodo(inicio, fim) == [inicio |-> inicio, fim |-> fim]

PacienteDia(id, iid, setor, data, cvc, foley, art_line, ventilado) ==
    [_id |-> id, id_internacao |-> iid, id_setor |-> setor, data |-> data,
     cvc |-> cvc, foley |-> foley, art_line |-> art_line, ventilado |-> ventilado]

AntibioticoUso(id, iid, nome) == [_id |-> id, id_internacao |-> iid, antibiotico |-> nome]

AntibioticoPeriodo(id, id_ab_uso, inicio, fim) ==
    [_id |-> id, id_ab_uso |-> id_ab_uso, inicio |-> inicio, fim |-> fim]

\* midnights of the days 0..MaxDay, and those with the last hour of each day
DayGrid == {d * HoursPerDay : d \in 0..MaxDay}
Grid == DayGrid \cup {d * HoursPerDay + (HoursPerDay - 1) : d \in 0..MaxDay}

\* [inicio, fim] pairs over the instants G, not starting before `from`
Intervalos(G, from) ==
    {<<Dt(a), None>> : a \in {x \in G : x >= from}}
    \cup {<<Dt(p[1]), Dt(p[2])>> : p \in {q \in G \X G : from <= q[1] /\ q[1] <= q[2]}}

\* no stay, or one stay `id` of admission iid (admitted at adm) in one of the sectors
UmaEstada(id, iid, adm, onde, G) ==
    {{}} \cup {{Estada(id, iid, st, iv[1], iv[2])} :
                  st \in onde, iv \in Intervalos(G, adm)}

\* no stay, or one stay `id` of admission iid in one of the sectors, over one of
\* the intervals
EstadaEm(id, iid, onde, intervalos) ==
    {{}} \cup {{Estada(id, iid, st, iv[1], iv[2])} : st \in onde, iv \in intervalos}

InitCoorte ==
    /\ now = 2 * HoursPerDay - 1
    /\ tz = 0
    /\ call = NoCall
    /\ ret = NoRet
    /\ \E alta1 \in {None, Dt(HoursPerDay), Dt(2 * HoursPerDay)},
          desf1 \in {"alta", "OBITO"},
          alta2 \in {None, Dt(2 * HoursPerDay - 1), Dt(2 * HoursPerDay)},
          tem3 \in BOOLEAN :
          internacoes =
              {Internacao("i1", "I1", "P1", Dt(0), alta1, desf1, NoneStr),
               Internacao("i2", "I2", "P1", Dt(0), alta2, "alta", " Casa ")}
              \cup (IF tem3
                    THEN {Internacao("i3", "I3", "P1", Dt(2 * HoursPerDay - 1), None,
                                     NoneStr, NoneStr)}
                    ELSE {})
    /\ \E E1 \in EstadaEm("e1", "I1", Setores,
                           {<<Dt(0), None>>, <<Dt(0), Dt(0)>>, <<Dt(0), Dt(HoursPerDay)>>,
                            <<Dt(HoursPerDay), Dt(2 * HoursPerDay)>>,
                            <<Dt(2 * HoursPerDay), None>>}),
          E2 \in UNION {EstadaEm("e2", i, {"CTI-ADULTO"},
                                 {<<Dt(0), None>>, <<Dt(0), Dt(HoursPerDay)>>,
                                  <<Dt(HoursPerDay), Dt(2 * HoursPerDay)>>}) :
                           i \in {"I1", "I2"}} :
          estadas = E1 \cup E2
              \cup (IF \E x \in internacoes : x.id_internacao = "I3"
                    THEN {Estada("e3", "I3", "CTI-ADULTO", Dt(2 * HoursPerDay), None)}
                    ELSE {})
    /\ ventilacao = {}
    /\ antibioticos_uso = {}
    /\ antibiotico_periodos = {}
    /\ paciente_dia_setor = {}
    /\ kpi_cti_gestao = {}
    /\ cti_setores = {}
    /\ setores = {}
    /\ dispositivo_uso = {}
    /\ labs = {}
    /\ _client = MongoClient(1)
    /\ _db = Database(_client)
    /\ thr = Parados
    /\ doc = NoDoc
    /\ loc = NoDoc

NextCoorte == (\E t \in UmaThread : build_sem_antibioticos(t, Janelas)) \/ Tick(Leituras)

SpecCoorte == InitCoorte /\ [][NextCoorte]_vars

-----------------------------------------------------------------------------
(* Cohorts as the specification defines them, over the stored collections *)

\* admissions with a stay in the sector with start < window.end and
\* (end >= window.start or end absent)
CoortePresenca(id_setor, ws, we) ==
    {e.id_internacao : e \in {x \in estadas :
        /\ x.id_setor = id_setor
        /\ x.inicio.t < we
        /\ (x.fim.k = "none" \/ x.fim.t >= ws)}}

\* the qualifying stays of one admission in the sector
EstadasQualificadas(iid, id_setor, ws, we) ==
    {x \in estadas :
        /\ x.id_internacao = iid
        /\ x.id_setor = id_setor
        /\ x.inicio.t < we
        /\ (x.fim.k = "none" \/ x.fim.t >= ws)}

\* admissions discharged in [ws, we) that ever had a stay in the sector
CoorteAltas(id_setor, ws, we) ==
    {s \in internacoes :
        /\ s.alta_ts.k = "aware"
        /\ ws <= s.alta_ts.t /\ s.alta_ts.t < we
        /\ \E e \in estadas : e.id_internacao = s.id_internacao /\ e.id_setor = id_setor}

RECURSIVE SomaSobreposicao(_, _, _, _)
SomaSobreposicao(S, ws, we, clock) ==
    IF S = {} THEN 0
    ELSE LET e == CHOOSE x \in S : TRUE
             fim == IF e.fim.k = "none" THEN clock ELSE e.fim.t
         IN  Max(0, (Min(fim, we) - Max(e.inicio.t, ws)) * SecsPerHour)
             + SomaSobreposicao(S \ {e}, ws, we, clock)

(* C3 as stated: the presence-cohort count of the document                 *)
(* (coorte.pacientes_no_periodo, repeated under LOS) is the number of      *)
(* distinct admissions with a stay in the sector with start < window.end   *)
(* and (end >= window.start or end absent), an admission whose only such   *)
(* stay ends exactly at window.start included.                             *)
C3_ContagemCoorte ==
    doc.built =>
        LET n == Cardinality(CoortePresenca(loc.id_setor, loc.inicio_inclusivo.t,
                                            loc.fim_exclusivo.t))
        IN  /\ doc.coorte.pacientes_no_periodo = n
            /\ doc.los_periodo_setor.pacientes_no_periodo = n

(* C4 as stated: every admission of the presence cohort has a LOS sample,  *)
(* the sum over its qualifying stays in the sector of the overlap with the *)
(* window, in days; stays in other sectors add nothing.                    *)
C4_AmostraLOS ==
    doc.built =>
        \A iid \in CoortePresenca(loc.id_setor, loc.inicio_inclusivo.t, loc.fim_exclusivo.t) :
            /\ iid \in DOMAIN loc.los_periodo_d
            /\ loc.los_periodo_d[iid] =
                  [num |-> SomaSobreposicao(
                               EstadasQualificadas(iid, loc.id_setor,
                                   loc.inicio_inclusivo.t, loc.fim_exclusivo.t),
                               loc.inicio_inclusivo.t, loc.fim_exclusivo.t, loc.now_utc),
                   den |-> SecsPerDay]

(* C5: the discharge cohort behind mortality, the destination distribution *)
(* and the readmission candidates is exactly the admissions with           *)
(* window.start <= dischargedAt < window.end that have a stay in the       *)
(* sector at any time; a discharge at window.end is out, one at            *)
(* window.start is in.                                                     *)
C5_CoorteAltas ==
    doc.built =>
        LET C == CoorteAltas(loc.id_setor, loc.inicio_inclusivo.t, loc.fim_exclusivo.t)
        IN  /\ loc.saidas = C
            /\ doc.mortalidade.saidas = Cardinality(C)
            /\ SumF([d \in DOMAIN doc.destino_alta |-> doc.destino_alta[d].quantidade],
                    DOMAIN doc.destino_alta) = Cardinality(C)
            /\ loc.readm_base \subseteq C
            /\ \A s \in internacoes :
                  (s.alta_ts.k = "aware" /\ s.alta_ts.t = loc.fim_exclusivo.t)
                      => s \notin loc.saidas
            /\ \A s \in internacoes :
                  (/\ s.alta_ts.k = "aware" /\ s.alta_ts.t = loc.inicio_inclusivo.t
                   /\ \E e \in estadas : /\ e.id_internacao = s.id_internacao
                                         /\ e.id_setor = loc.id_setor)
                      => s \in loc.saidas

\* one admission discharged at window.start whose only stay in the sector ended
\* before the window is in, another discharged at window.end with a stay in the
\* sector is out
C5_Witness ==
    /\ doc.built
    /\ \E s \in loc.saidas :
          /\ s.alta_ts.t = loc.inicio_inclusivo.t
          /\ \A e \in estadas :
                (e.id_internacao = s.id_internacao /\ e.id_setor = loc.id_setor)
                    => (e.fim.k = "aware" /\ e.fim.t < loc.inicio_inclusivo.t)
    /\ \E x \in internacoes :
          /\ x.alta_ts.k = "aware" /\ x.alta_ts.t = loc.fim_exclusivo.t
          /\ \E e \in estadas : e.id_internacao = x.id_internacao /\ e.id_setor = loc.id_setor
          /\ x \notin loc.saidas

\* the snapshot without admission x, its stays and its ventilation documents
SemInternacao(db, x) ==
    [db EXCEPT
        !.internacoes = db.internacoes \ {x},
        !.estadas = {e \in db.estadas : e.id_internacao # x.id_internacao},
        !.ventilacao = {v \in db.ventilacao : v.id_internacao # x.id_internacao}]

\* x has an open-ended stay in the sector that spans the whole window (it began by
\* window.start and, being open, reaches now >= window.end) and no discharge in it
PresenteSemAlta(x) ==
    /\ \E e \in estadas :
          /\ e.id_internacao = x.id_internacao
          /\ e.id_setor = loc.id_setor
          /\ e.inicio.t <= loc.inicio_inclusivo.t
          /\ e.fim.k = "none"
    /\ loc.now_utc >= loc.fim_exclusivo.t
    /\ ~(/\ x.alta_ts.k = "aware"
         /\ loc.inicio_inclusivo.t <= x.alta_ts.t
         /\ x.alta_ts.t < loc.fim_exclusivo.t)

(* C6: an admission with an open-ended stay in the sector spanning the     *)
(* whole window and no dischargedAt inside the window adds one sample to   *)
(* the LOS statistic and changes none of mortality, the destination        *)
(* distribution and readmission48h: the document of the snapshot without   *)
(* it differs in the LOS sample only.                                      *)
C6_CoortesIndependentes ==
    doc.built =>
        \A x \in internacoes :
            PresenteSemAlta(x) =>
                LET db2 == SemInternacao(get_db, x)
                    base2 == readm_base(db2, loc.id_setor, loc.inicio_inclusivo,
                                        loc.fim_exclusivo)
                    l2 == locals_of(db2, loc.id_setor, loc.inicio_inclusivo,
                                    loc.fim_exclusivo, loc.clock, loc.it_map,
                                    [s \in base2 |-> loc.prox_int[s]])
                    d2 == document_of(l2 @@ (CHOOSE r \in resultados(l2) : TRUE))
                IN  /\ base2 = loc.readm_base
                    /\ \A s \in base2 :
                          prox_int_candidates(db2, s) = prox_int_candidates(get_db, s)
                    /\ x.id_internacao \in DOMAIN loc.los_periodo_d
                    /\ DOMAIN l2.los_periodo_d
                          = DOMAIN loc.los_periodo_d \ {x.id_internacao}
                    /\ \A i \in DOMAIN l2.los_periodo_d :
                          l2.los_periodo_d[i] = loc.los_periodo_d[i]
                    /\ d2.coorte.pacientes_no_periodo + 1 = doc.coorte.pacientes_no_periodo
                    /\ d2.mortalidade = doc.mortalidade
                    /\ d2.destino_alta = doc.destino_alta
                    /\ d2.readmissao_48h = doc.readmissao_48h

\* such an admission beside a discharge of the window that is readmitted
C6_Witness ==
    /\ doc.built
    /\ \E x \in internacoes : PresenteSemAlta(x)
    /\ doc.mortalidade.saidas >= 1
    /\ doc.readmissao_48h.readmissoes >= 1
    /\ doc.coorte.pacientes_no_periodo >= 2

-----------------------------------------------------------------------------
(* Snapshots for readmission: a discharge of I1 in the window and up to two *)
(* other admissions, of the same or of another patient, with or without a   *)
(* stay in either sector.                                                   *)

GridReadm ==
    {HoursPerDay - 1, 2 * HoursPerDay - 1, 2 * HoursPerDay, 3 * HoursPerDay,
     (MaxDay + 1) * HoursPerDay - 1, (MaxDay + 1) * HoursPerDay}

\* no stay, or a stay of the admission in one of the sectors, over the admission
EstadaDe(id, iid, adm, alta) ==
    {{}} \cup {{Estada(id, iid, st, adm, alta)} : st \in Setores}

InitReadm ==
    /\ now = (MaxDay + 1) * HoursPerDay
    /\ tz = 0
    /\ call = NoCall
    /\ ret = NoRet
    /\ \E alta1 \in {Dt(HoursPerDay), Dt(2 * HoursPerDay - 1)},
          desf1 \in {"alta", "obito"},
          st1 \in Setores,
          pac2 \in Pacientes,
          adm2 \in GridReadm,
          adm3 \in GridReadm :
          \E alta2 \in {None} \cup {Dt(t) : t \in {x \in {2 * HoursPerDay - 1} : x >= adm2}},
             E2 \in EstadaDe("e2", "I2", Dt(adm2), None),
             E3 \in EstadaDe("e3", "I3", Dt(adm3), None) :
             \* one patient is not admitted twice at the same instant
             /\ pac2 = "P1" => adm2 # adm3
             /\ internacoes =
                   {Internacao("i1", "I1", "P1", Dt(0), alta1, desf1, NoneStr),
                    Internacao("i2", "I2", pac2, Dt(adm2), alta2, "alta", NoneStr),
                    Internacao("i3", "I3", "P1", Dt(adm3), None, NoneStr, NoneStr)}
             /\ estadas = {Estada("e1", "I1", st1, Dt(0), alta1)} \cup E2 \cup E3
    /\ ventilacao = {}
    /\ antibioticos_uso = {}
    /\ antibiotico_periodos = {}
    /\ paciente_dia_setor = {}
    /\ kpi_cti_gestao = {}
    /\ cti_setores = {}
    /\ setores = {}
    /\ dispositivo_uso = {}
    /\ labs = {}
    /\ _client = MongoClient(1)
    /\ _db = Database(_client)
    /\ thr = Parados
    /\ doc = NoDoc
    /\ loc = NoDoc

NextReadm == (\E t \in UmaThread : build_sem_antibioticos(t, Janelas)) \/ Tick(Depois)

SpecReadm == InitReadm /\ [][NextReadm]_vars

\* the patient's admissions after the discharge s that have a stay in the sector
ProximasNoSetor(s, id_setor) ==
    {n \in internacoes :
        /\ n.id_paciente = s.id_paciente
        /\ n.admissao_ts.k = "aware"
        /\ n.admissao_ts.t > s.alta_ts.t
        /\ \E e \in estadas : e.id_internacao = n.id_internacao /\ e.id_setor = id_setor}

\* the earliest of them
PrimeirasNoSetor(s, id_setor) ==
    {n \in ProximasNoSetor(s, id_setor) :
        \A m \in ProximasNoSetor(s, id_setor) : n.admissao_ts.t <= m.admissao_ts.t}

\* the discharged-alive admissions of the discharge cohort
AltasVivas(id_setor, ws, we) ==
    {s \in CoorteAltas(id_setor, ws, we) : s.desfecho = "alta"}

(* C7 as stated: a discharge at T from the sector is counted as a 48h      *)
(* readmission when the same patient's next admission into that sector     *)
(* starts after T with gap <= 48 hours, is not counted when that gap is    *)
(* larger, and an admission without a stay in the sector is never what is  *)
(* counted.                                                                *)
C7_Readmissao48h ==
    doc.built =>
        \A s \in AltasVivas(loc.id_setor, loc.inicio_inclusivo.t, loc.fim_exclusivo.t) :
            /\ \A n \in PrimeirasNoSetor(s, loc.id_setor) :
                  /\ n.admissao_ts.t - s.alta_ts.t <= Limite48h => s \in loc.readmitidas
                  /\ n.admissao_ts.t - s.alta_ts.t > Limite48h => s \notin loc.readmitidas
            /\ s \in loc.readmitidas =>
                  \E e \in estadas : /\ e.id_internacao = loc.prox_int[s].id_internacao
                                     /\ e.id_setor = loc.id_setor

\* admissions of the patient between the discharge s and the admission n that
\* have no stay in the sector
Intermediarias(s, n, id_setor) ==
    {m \in internacoes :
        /\ m.id_paciente = s.id_paciente
        /\ m.admissao_ts.k = "aware"
        /\ s.alta_ts.t < m.admissao_ts.t /\ m.admissao_ts.t < n.admissao_ts.t
        /\ ~\E e \in estadas : e.id_internacao = m.id_internacao /\ e.id_setor = id_setor}

(* C8 as stated: the candidates are only the patient's later admissions    *)
(* with a stay in the sector, so an admission of the patient to another    *)
(* sector between the discharge and the earliest later admission into the  *)
(* sector does not keep that one, when within 48 hours, from being         *)
(* counted.                                                                *)
C8_CandidatasNoSetor ==
    doc.built =>
        \A s \in loc.readm_base :
            \A n \in PrimeirasNoSetor(s, loc.id_setor) :
                (/\ n.admissao_ts.t - s.alta_ts.t <= Limite48h
                 /\ Intermediarias(s, n, loc.id_setor) # {})
                    => s \in loc.readmitidas

(* C9: readmissao_48h.altas counts exactly the admissions of the discharge *)
(* cohort whose outcome is 'alta', so readmissoes <= altas <=              *)
(* mortalidade.saidas, and the rate is readmissoes / altas rounded to 4    *)
(* decimals, 0 when altas is 0.                                            *)
C9_BaseReadmissao ==
    doc.built =>
        LET r == doc.readmissao_48h
        IN  /\ r.altas = Cardinality(AltasVivas(loc.id_setor, loc.inicio_inclusivo.t,
                                                loc.fim_exclusivo.t))
            /\ r.readmissoes <= r.altas
            /\ r.altas <= doc.mortalidade.saidas
            /\ r.altas = 0 => r.taxa = 0
            /\ r.altas > 0 =>
                  /\ 2 * (r.taxa * r.altas - 10000 * r.readmissoes) <= r.altas
                  /\ 2 * (10000 * r.readmissoes - r.taxa * r.altas) <= r.altas

\* one of two discharged-alive admissions is readmitted: rate 0.5
C9_Witness ==
    /\ doc.built
    /\ doc.readmissao_48h.altas = 2
    /\ doc.readmissao_48h.readmissoes = 1
    /\ doc.readmissao_48h.taxa = 5000

-----------------------------------------------------------------------------
(* Snapshots for reintubation: the ventilation document of I1, with up to   *)
(* two intubations and two extubations in any order, and for I2 either no   *)
(* document or a fixed one.                                                 *)

Seqs2(S) == {<<>>} \cup {<<a>> : a \in S} \cup {<<p[1], p[2]>> : p \in S \X S}

\* the instants of the intubations and extubations
GridVent == {0, HoursPerDay - 1, HoursPerDay, 2 * HoursPerDay - 1, 3 * HoursPerDay}

InitVent ==
    /\ now = (MaxDay + 1) * HoursPerDay
    /\ tz = 0
    /\ call = NoCall
    /\ ret = NoRet
    /\ internacoes = {Internacao("i1", "I1", "P1", Dt(0), None, NoneStr, NoneStr),
                      Internacao("i2", "I2", "P2", Dt(0), None, NoneStr, NoneStr)}
    /\ \E st1 \in Setores :
          estadas = {Estada("e1", "I1", st1, Dt(0), None),
                     Estada("e2", "I2", "CTI-ADULTO", Dt(0), None)}
    /\ \E intu \in Seqs2({Dt(t) : t \in GridVent}),
          ext \in Seqs2({Dt(t) : t \in GridVent}),
          V2 \in {{}, {Ventilacao("v2", "I2", <<Dt(2 * HoursPerDay)>>,
                                  <<Dt(0), Dt(HoursPerDay)>>, <<>>)}} :
          ventilacao = {Ventilacao("v1", "I1", intu, ext, <<>>)} \cup V2
    /\ antibioticos_uso = {}
    /\ antibiotico_periodos = {}
    /\ paciente_dia_setor = {}
    /\ kpi_cti_gestao = {}
    /\ cti_setores = {}
    /\ setores = {}
    /\ dispositivo_uso = {}
    /\ labs = {}
    /\ _client = MongoClient(1)
    /\ _db = Database(_client)
    /\ thr = Parados
    /\ doc = NoDoc
    /\ loc = NoDoc

NextVent == (\E t \in UmaThread : build_sem_antibioticos(t, Janelas)) \/ Tick(Depois)

SpecVent == InitVent /\ [][NextVent]_vars

\* the ventilation documents of the presence cohort
VentsDaCoorte ==
    {v \in ventilacao :
        v.id_internacao \in CoortePresenca(loc.id_setor, loc.inicio_inclusivo.t,
                                           loc.fim_exclusivo.t)}

\* positions of the extubations of v that count: some intubation of v is
\* strictly later, and the earliest such is at most 48 hours later
ExtubacoesReintubadas(v) ==
    {k \in 1..Len(v.extubacoes_ts) :
        LET E == v.extubacoes_ts[k].t
            depois == {v.intubacoes_ts[j].t : j \in {i \in 1..Len(v.intubacoes_ts) :
                                                        v.intubacoes_ts[i].t > E}}
        IN  /\ depois # {}
            /\ \E i \in depois : (\A j \in depois : i <= j) /\ i - E <= Limite48h}

(* C10: reintubation evaluates every extubation of every admission of the  *)
(* presence cohort on its own: the denominator is the total number of      *)
(* extubation instants, and an extubation E counts iff the earliest        *)
(* intubation strictly after E exists and is at most 48 hours after E.     *)
C10_Reintubacao ==
    doc.built =>
        /\ doc.reintubacao_48h.extubacoes =
              SumF([v \in VentsDaCoorte |-> Len(v.extubacoes_ts)], VentsDaCoorte)
        /\ doc.reintubacao_48h.reintubacoes =
              SumF([v \in VentsDaCoorte |-> Cardinality(ExtubacoesReintubadas(v))],
                   VentsDaCoorte)

\* extubations at T and T+24h around a single intubation at T+23h: one of two
C10_Witness ==
    /\ doc.built
    /\ \E v \in ventilacao :
          /\ v.id_internacao \in loc.coorte_ids
          /\ Len(v.extubacoes_ts) = 2 /\ Len(v.intubacoes_ts) = 1
          /\ v.intubacoes_ts[1].t = v.extubacoes_ts[1].t + HoursPerDay - 1
          /\ v.extubacoes_ts[2].t = v.extubacoes_ts[1].t + HoursPerDay
          /\ loc.vents[v].reint = 1
    /\ Cardinality(DOMAIN loc.vents) = 1
    /\ doc.reintubacao_48h.reintubacoes = 1
    /\ doc.reintubacao_48h.extubacoes = 2

\* the instants of a sorted list are pairwise distinct
SemRepetidos(q) == \A j, k \in 1..Len(q) : j # k => q[j] # q[k]

(* C11 as stated: within one ventilation record (with distinct extubation  *)
(* instants and distinct intubation instants) no intubation instant is the *)
(* matched next intubation of two different counted extubations, so the    *)
(* reintubations counted for the admission never exceed its number of      *)
(* intubation instants.                                                    *)
C11_UmaExtubacaoPorIntubacao ==
    doc.built =>
        \A v \in DOMAIN loc.vents :
            LET r == loc.vents[v]
                contadas == {k \in 1..Len(r.ext) : reintubada(r.intu, r.ext[k])}
            IN  (SemRepetidos(r.ext) /\ SemRepetidos(r.intu)) =>
                    /\ \A j, k \in contadas :
                          j # k => prox_intubacao(r.intu, r.ext[j])
                                       # prox_intubacao(r.intu, r.ext[k])
                    /\ r.reint <= Len(r.intu)

-----------------------------------------------------------------------------
(* Direct calls of _overlap_seconds with datetimes that carry no tzinfo, in  *)
(* processes of different local zones.                                       *)

MaxN == 2        \* wall-clock readings and instants 0..MaxN in these calls

Fusos == {0 - 3, 0, 1}

InstantesN == {Dt(t) : t \in 0..MaxN} \cup {Naive(t) : t \in 0..MaxN}

InitNaive ==
    /\ now = MaxN
    /\ tz \in Fusos
    /\ call \in [a_start : InstantesN, a_end : InstantesN \cup {None},
                 b_start : InstantesN, b_end : InstantesN]
    /\ ret = NoRet
    /\ internacoes = {}
    /\ estadas = {}
    /\ ventilacao = {}
    /\ antibioticos_uso = {}
    /\ antibiotico_periodos = {}
    /\ paciente_dia_setor = {}
    /\ kpi_cti_gestao = {}
    /\ cti_setores = {}
    /\ setores = {}
    /\ dispositivo_uso = {}
    /\ labs = {}
    /\ _client = MongoClient(1)
    /\ _db = Database(_client)
    /\ thr = NoThreads
    /\ doc = NoDoc
    /\ loc = NoDoc

NextNaive == OverlapCall

SpecNaive == InitNaive /\ [][NextNaive]_vars

SemFuso(v) == v.k = "naive"

(* C12 as stated: _overlap_seconds returns 0 for every call in which       *)
(* aStart, aEnd, windowStart or windowEnd is a timestamp without an        *)
(* explicit UTC offset.                                                    *)
C12_NaiveInvalido ==
    (/\ ret.done
     /\ \/ SemFuso(call.a_start) \/ SemFuso(call.a_end)
        \/ SemFuso(call.b_start) \/ SemFuso(call.b_end))
        => ret.v = 0

-----------------------------------------------------------------------------
(* Snapshots with malformed instants: admission I1 with an open stay, one   *)
(* antibiotic whose dosing period p1 may lack its start or end or hold a    *)
(* string that is no date, beside a well-formed period p2, and a            *)
(* ventilation document with up to two such periods.                        *)

SeqsAte2(S) == {<<>>} \cup {<<a>> : a \in S} \cup {<<a, b>> : a \in S, b \in S}

\* no period, one of S, or one of S followed by the period p
SeqsCom(S, p) == {<<>>} \cup {<<a>> : a \in S} \cup {<<a, p>> : a \in S}

InitMalformado ==
    /\ now = 2 * HoursPerDay - 1
    /\ tz = 0
    /\ call = NoCall
    /\ ret = NoRet
    /\ internacoes = {Internacao("i1", "I1", "P1", Dt(0), None, NoneStr, NoneStr)}
    /\ \E st1 \in Setores : estadas = {Estada("e1", "I1", st1, Dt(0), None)}
    /\ \E per \in SeqsCom({Periodo(i, f) :
                               i \in {Dt(HoursPerDay - 1), None, Bad},
                               f \in {Dt(2 * HoursPerDay - 1), None, Bad}},
                          Periodo(Dt(HoursPerDay - 1), Dt(2 * HoursPerDay - 1))) :
          ventilacao = {Ventilacao("v1", "I1", <<>>, <<>>, per)}
    /\ antibioticos_uso = {AntibioticoUso("u1", "I1", "meropenem")}
    /\ \E P1 \in {{}} \cup {{AntibioticoPeriodo("p1", "u1", i, f)} :
                      i \in {Dt(HoursPerDay), None, Bad},
                      f \in {Dt(2 * HoursPerDay - 1), Dt(2 * HoursPerDay), None, Bad}},
          P2 \in {{}, {AntibioticoPeriodo("p2", "u1", Dt(0), Dt(HoursPerDay - 1))},
                      {AntibioticoPeriodo("p2", "u1", Dt(HoursPerDay), Dt(2 * HoursPerDay))}} :
          antibiotico_periodos = P1 \cup P2
    /\ paciente_dia_setor = {}
    /\ kpi_cti_gestao = {}
    /\ cti_setores = {}
    /\ setores = {}
    /\ dispositivo_uso = {}
    /\ labs = {}
    /\ _client = MongoClient(1)
    /\ _db = Database(_client)
    /\ thr = Parados
    /\ doc = NoDoc
    /\ loc = NoDoc

NextMalformado == (\E t \in UmaThread : build_kpi(t, Janelas)) \/ Tick(Leituras)

SpecMalformado == InitMalformado /\ [][NextMalformado]_vars

\* a dosing period is malformed when its start or its end is missing or unparsable
AbMalformado(p) == p.inicio.k # "aware" \/ p.fim.k # "aware"

\* a ventilation period is malformed when its start is missing or unparsable or its
\* end is unparsable (a missing end is an open period)
VentMalformado(p) == p.inicio.k # "aware" \/ p.fim.k = "bad"

RECURSIVE SemVentMalformados(_)
SemVentMalformados(per) ==
    IF per = <<>> THEN <<>>
    ELSE (IF VentMalformado(Head(per)) THEN <<>> ELSE <<Head(per)>>)
         \o SemVentMalformados(Tail(per))

\* the snapshot without its malformed periods
SemMalformados(db) ==
    [db EXCEPT
        !.antibiotico_periodos = {p \in db.antibiotico_periodos : ~AbMalformado(p)},
        !.ventilacao = {[v EXCEPT !.periodos = SemVentMalformados(v.periodos)] :
                           v \in db.ventilacao}]

(* C13 as stated: a period with a malformed instant (a missing or          *)
(* unparsable start, an unparsable end, and for an antibiotic dosing       *)
(* period also a missing end) contributes zero overlap to every window     *)
(* metric, so the antibiotic and ventilation figures are those of the      *)
(* snapshot without the malformed periods; it is never taken as an open    *)
(* interval reaching now.                                                  *)
C13_MalformadoExcluido ==
    doc.built =>
        LET db2 == SemMalformados(get_db)
        IN  /\ loc.dot_map = dot_map_of(db2, ab_usos_of(db2, loc.coorte_ids), loc.inicio_inclusivo,
                                        loc.fim_exclusivo, loc.clock)
            /\ loc.exp_map = exp_map_of(db2, ab_usos_of(db2, loc.coorte_ids), loc.inicio_inclusivo,
                                        loc.fim_exclusivo, loc.clock)
            /\ \A v \in DOMAIN loc.vents :
                  loc.vents[v].total_secs =
                      vent_total_secs(v._id, SemVentMalformados(v.periodos), 1,
                                      loc.inicio_inclusivo, loc.fim_exclusivo,
                                      Relogio(loc.now_utc, <<>>))

-----------------------------------------------------------------------------
(* Repeated invocations over one snapshot while the wall clock advances:    *)
(* admission I1 with an open or a closed stay and an open or a closed       *)
(* ventilation period, read before and after the end of the window.         *)

InitRelogio ==
    /\ now \in Leituras
    /\ tz = 0
    /\ call = NoCall
    /\ ret = NoRet
    /\ internacoes = {Internacao("i1", "I1", "P1", Dt(0), None, NoneStr, NoneStr)}
    /\ \E st1 \in Setores,
          iv \in {<<Dt(0), None>>, <<Dt(0), Dt(HoursPerDay - 1)>>,
                  <<Dt(HoursPerDay), Dt(2 * HoursPerDay - 1)>>,
                  <<Dt(HoursPerDay), None>>} :
          estadas = {Estada("e1", "I1", st1, iv[1], iv[2])}
    /\ \E per \in {<<>>, <<Periodo(Dt(HoursPerDay), None)>>,
                    <<Periodo(Dt(HoursPerDay), Dt(2 * HoursPerDay - 1))>>,
                    <<Periodo(Dt(0), Dt(HoursPerDay))>>} :
          ventilacao = {Ventilacao("v1", "I1", <<Dt(HoursPerDay)>>, <<>>, per)}
    /\ antibioticos_uso = {AntibioticoUso("u1", "I1", "meropenem")}
    /\ antibiotico_periodos \in
          {{}, {AntibioticoPeriodo("p1", "u1", Dt(HoursPerDay), Dt(2 * HoursPerDay - 1))}}
    /\ paciente_dia_setor = {}
    /\ kpi_cti_gestao = {}
    /\ cti_setores = {}
    /\ setores = {}
    /\ dispositivo_uso = {}
    /\ labs = {}
    /\ _client = MongoClient(1)
    /\ _db = Database(_client)
    /\ thr = Parados
    /\ doc = NoDoc
    /\ loc = NoDoc

NextRelogio == (\E t \in UmaThread : build_kpi_cti_gestao(t) \/ Repete(t)) \/ Tick(Leituras)

SpecRelogio == InitRelogio /\ [][NextRelogio]_vars

(* C14 as stated: an execution of build_kpi_cti_gestao that follows        *)
(* another one with the same sector and window over the unchanged snapshot *)
(* returns the identical document, whatever the wall clock reads at each   *)
(* of the two.                                                             *)
C14_Idempotencia ==
    [][(/\ doc.built /\ doc'.built
        /\ doc'.id_setor = doc.id_setor
        /\ doc'.periodo = doc.periodo
        /\ get_db' = get_db)
           => doc' = doc]_vars

-----------------------------------------------------------------------------
(* Direct calls of the helpers _stats, p90, _ratio and _normaliza_destino   *)

MaxLen == 5      \* samples of up to MaxLen values
MaxVal == 5      \* sample values 1..MaxVal
LenLonga == 11   \* length of the long samples, over the values 1 and 2
MaxNum == 4      \* numerators -MaxNum..MaxNum, denominators 0..MaxNum

Amostras ==
    UNION {[1..n -> 1..MaxVal] : n \in 0..MaxLen} \cup [1..LenLonga -> {1, 2}]

Desfechos == {NoneStr, "", "alta", "OBITO", "obito", "transferencia",
              " Transferencia ", "evasao"}
Destinos == {NoneStr, "", "  ", " Casa "}

\* the list of floats of a sample of integers
floats(arr) == [i \in DOMAIN arr |-> Frac(arr[i], 1)]

InitPuras ==
    /\ now = 0
    /\ tz = 0
    /\ call \in {[op |-> o, arr |-> a] : o \in {"_stats", "p90"}, a \in Amostras}
              \cup {[op |-> "_ratio", num |-> n, den |-> d, ndigits |-> g] :
                       n \in (0 - MaxNum)..MaxNum, d \in 0..MaxNum, g \in {0, 2, 4}}
              \cup {[op |-> o, s |-> [destino_alta |-> a, desfecho |-> b]] :
                       o \in {"_normaliza_destino", "_normaliza_destino_app"},
                       a \in Destinos, b \in Desfechos}
    /\ ret = NoRet
    /\ internacoes = {}
    /\ estadas = {}
    /\ ventilacao = {}
    /\ antibioticos_uso = {}
    /\ antibiotico_periodos = {}
    /\ paciente_dia_setor = {}
    /\ kpi_cti_gestao = {}
    /\ cti_setores = {}
    /\ setores = {}
    /\ dispositivo_uso = {}
    /\ labs = {}
    /\ _client = MongoClient(1)
    /\ _db = Database(_client)
    /\ thr = NoThreads
    /\ doc = NoDoc
    /\ loc = NoDoc

Returns(v) ==
    /\ ret' = [done |-> TRUE, v |-> v]
    /\ UNCHANGED <<now, tz, call, internacoes, estadas, ventilacao,
                   antibioticos_uso, antibiotico_periodos, paciente_dia_setor, cti_setores, setores,
                   dispositivo_uso, labs,
                   kpi_cti_gestao, _client, _db, thr, doc, loc>>

StatsCall == ~ret.done /\ call.op = "_stats" /\ Returns(_stats(floats(call.arr)))

P90Call == ~ret.done /\ call.op = "p90" /\ Returns(p90(floats(call.arr)))

RatioCall ==
    ~ret.done /\ call.op = "_ratio" /\ Returns(_ratio(call.num, call.den, call.ndigits))

NormalizaCall ==
    ~ret.done /\ call.op = "_normaliza_destino" /\ Returns(_normaliza_destino(call.s))

NormalizaAppCall ==
    ~ret.done /\ call.op = "_normaliza_destino_app"
              /\ Returns(_normaliza_destino_app(call.s))

NextPuras == StatsCall \/ P90Call \/ RatioCall \/ NormalizaCall \/ NormalizaAppCall

SpecPuras == InitPuras /\ [][NextPuras]_vars

Abs(x) == IF x < 0 THEN 0 - x ELSE x

\* v, in units of 1/escala, is a multiple of that unit nearest to num/den
MaisProximo(v, num, den, escala) == 2 * Abs(v * den - escala * num) <= den

\* twice the median of a sample of integers
DobroMediana(arr) ==
    LET v == sorted(arr)
        n == Len(arr)
    IN  IF n % 2 = 1 THEN 2 * v[(n + 1) \div 2] ELSE v[n \div 2] + v[n \div 2 + 1]

\* ten times the linear-interpolated 90th percentile of a sample of integers:
\* k = 0.9 * (n - 1), s[k] when k is an integer, else
\* s[floor(k)] + (k - floor(k)) * (s[ceil(k)] - s[floor(k)]), s indexed from 0
DezP90(arr) ==
    LET v == sorted(arr)
        k10 == 9 * (Len(arr) - 1)
        fl == k10 \div 10
    IN  IF k10 % 10 = 0 THEN 10 * v[fl + 1]
        ELSE 10 * v[fl + 1] + (k10 % 10) * (v[fl + 2] - v[fl + 1])

Reverse(q) == [i \in 1..Len(q) |-> q[Len(q) + 1 - i]]

(* C15: _stats returns (0, 0, 0) for an empty sample and, for a non-empty  *)
(* one, the arithmetic mean, the median and the p90, each rounded to 2     *)
(* decimals; [4,1,2,3,5] gives mean 3 and median 3.                        *)
C15_Stats ==
    (ret.done /\ call.op = "_stats") =>
        LET arr == call.arr
            n == Len(arr)
        IN  /\ n = 0 => ret.v = <<0, 0, 0>>
            /\ n > 0 =>
                  /\ MaisProximo(ret.v[1], SumSeq(arr), n, 100)
                  /\ MaisProximo(ret.v[2], DobroMediana(arr), 2, 100)
                  /\ MaisProximo(ret.v[3], DezP90(arr), 10, 100)
            /\ arr = <<4, 1, 2, 3, 5>> => (ret.v[1] = 300 /\ ret.v[2] = 300)

C15_Witness ==
    /\ ret.done
    /\ call.op = "_stats"
    /\ call.arr = <<4, 1, 2, 3, 5>>
    /\ ret.v = <<300, 300, 460>>

\* the floats x and y are the same number
FEq(x, y) == FSub(x, y).m = <<>>

\* the floats x and y differ by less than 2^(4 - MantissaBits), which is four
\* units of the last place of a double between 2 and 4
Perto(x, y) ==
    LET d == FSub(x, y) IN d.m = <<>> \/ BBits(d.m) + d.e <= 4 - MantissaBits

(* C16: p90 of a non-empty sample is the linear-interpolated rank of the   *)
(* sorted sample: with k = 0.9 * (n - 1) it is s[k] when k is whole, and   *)
(* otherwise the float computed for s[floor(k)] + (k - floor(k)) *         *)
(* (s[ceil(k)] - s[floor(k)]), which lies within a few units of the last   *)
(* place of that number; it is the same float for the sample in reverse    *)
(* and in sorted order, and the double 4.6 for [4,1,2,3,5].                *)
C16_P90 ==
    (ret.done /\ call.op = "p90" /\ Len(call.arr) >= 1) =>
        LET s == sorted(call.arr)
            k10 == 9 * (Len(s) - 1)
        IN  /\ k10 % 10 = 0 => FEq(ret.v, FInt(s[k10 \div 10 + 1]))
            /\ Perto(ret.v, ToFloat(Frac(DezP90(call.arr), 10)))
            /\ FEq(p90(floats(Reverse(call.arr))), ret.v)
            /\ FEq(p90(floats(s)), ret.v)
            /\ call.arr = <<4, 1, 2, 3, 5>> => FEq(ret.v, ToFloat(Frac(46, 10)))

C16_Witness ==
    /\ ret.done
    /\ call.op = "p90"
    /\ call.arr = <<4, 1, 2, 3, 5>>
    /\ FEq(ret.v, ToFloat(Frac(46, 10)))

\* a sample whose rank k = 0.9 * (n - 1) is a whole number greater than 0
C16_WitnessInteiro ==
    /\ ret.done
    /\ call.op = "p90"
    /\ Len(call.arr) > 1
    /\ (9 * (Len(call.arr) - 1)) % 10 = 0
    /\ FEq(ret.v, FInt(2))

\* a sample for which the float p90 returns is not the double nearest the
\* interpolated number: [1, 1, 4] gives 3.4000000000000004
C16_WitnessArredondado ==
    /\ ret.done
    /\ call.op = "p90"
    /\ call.arr = <<1, 1, 4>>
    /\ ~FEq(ret.v, ToFloat(Frac(34, 10)))

(* C17: _ratio returns 0 for every num when den is 0 and otherwise num/den *)
(* rounded to ndigits decimals; _ratio(3, 4, 4) = 0.75.                    *)
C17_Ratio ==
    (ret.done /\ call.op = "_ratio") =>
        /\ call.den = 0 => ret.v = 0
        /\ call.den # 0 => MaisProximo(ret.v, call.num, call.den, Pow10(call.ndigits))
        /\ (call.num = 3 /\ call.den = 4 /\ call.ndigits = 4) => ret.v = 7500

C17_Witness ==
    /\ ret.done
    /\ call.op = "_ratio"
    /\ call.num = 3 /\ call.den = 4 /\ call.ndigits = 4
    /\ ret.v = 7500

\* the label the rule order of the specification gives
DestinoEsperado(s) ==
    LET rotulo == lower_strip(OrStr(s.destino_alta, ""))
        desfecho == lower_strip(OrStr(s.desfecho, ""))
    IN  IF rotulo # "" THEN rotulo
        ELSE IF desfecho = "alta" THEN "enfermaria"
        ELSE IF desfecho = "obito" THEN "obito"
        ELSE IF desfecho = "transferencia" THEN "outro_hospital"
        ELSE "enfermaria"

(* C18 as stated: _normaliza_destino is total and returns the destination  *)
(* label when it is non-empty after trim/lowercase, otherwise 'enfermaria' *)
(* for outcome 'alta', 'obito' for 'obito', 'outro_hospital' for           *)
(* 'transferencia', and 'enfermaria' for every other or missing outcome.   *)
C18_DestinoTotal ==
    (ret.done /\ call.op \in {"_normaliza_destino", "_normaliza_destino_app"}) =>
        ret.v = DestinoEsperado(call.s)

-----------------------------------------------------------------------------
(* Snapshots for antibiotics: I1 and I2 with open stays (I1 in either       *)
(* sector), I3 whose stay in the sector ended before the window; one usage  *)
(* per admission, named or not, and up to three closed dosing periods.      *)

\* closed [inicio, fim] pairs over the instants G
Fechados(G) == {<<Dt(q[1]), Dt(q[2])>> : q \in {r \in G \X G : r[1] <= r[2]}}

\* the instants the dosing periods start and end at
GridAb == {0, HoursPerDay, 2 * HoursPerDay - 1, 2 * HoursPerDay}

InitAb ==
    /\ now = (MaxDay + 1) * HoursPerDay
    /\ tz = 0
    /\ call = NoCall
    /\ ret = NoRet
    /\ internacoes = {Internacao("i1", "I1", "P1", Dt(0), None, NoneStr, NoneStr),
                      Internacao("i2", "I2", "P2", Dt(0), None, NoneStr, NoneStr),
                      Internacao("i3", "I3", "P2", Dt(0), Dt(HoursPerDay - 1), "alta", NoneStr)}
    /\ \E st1 \in Setores :
          estadas = {Estada("e1", "I1", st1, Dt(0), None),
                     Estada("e2", "I2", "CTI-ADULTO", Dt(0), None),
                     Estada("e3", "I3", "CTI-ADULTO", Dt(0), Dt(HoursPerDay - 1))}
    /\ ventilacao = {}
    /\ \E nome2 \in {"meropenem", "vancomicina", NoneStr} :
          antibioticos_uso = {AntibioticoUso("u1", "I1", "meropenem"),
                              AntibioticoUso("u2", "I2", nome2),
                              AntibioticoUso("u3", "I3", "meropenem")}
    /\ \E P1 \in {{}} \cup {{AntibioticoPeriodo("p1", "u1", iv[1], iv[2])} :
                      iv \in Fechados(GridAb)},
          P2 \in {{}} \cup {{AntibioticoPeriodo("p2", u, iv[1], iv[2])} :
                      u \in {"u1", "u2"}, iv \in Fechados(GridAb)},
          P3 \in {{}, {AntibioticoPeriodo("p3", "u3", Dt(HoursPerDay),
                                          Dt(2 * HoursPerDay))}} :
          antibiotico_periodos = P1 \cup P2 \cup P3
    /\ paciente_dia_setor = {}
    /\ kpi_cti_gestao = {}
    /\ cti_setores = {}
    /\ setores = {}
    /\ dispositivo_uso = {}
    /\ labs = {}
    /\ _client = MongoClient(1)
    /\ _db = Database(_client)
    /\ thr = Parados
    /\ doc = NoDoc
    /\ loc = NoDoc

NextAb == (\E t \in UmaThread : build_kpi(t, Janelas)) \/ Tick(Depois)

SpecAb == InitAb /\ [][NextAb]_vars

\* overlapSeconds of a closed period with the window [ws, we)
SobreposicaoPeriodo(p, ws, we) ==
    Max(0, (Min(p.fim.t, we) - Max(p.inicio.t, ws)) * SecsPerHour)

RECURSIVE SomaPeriodos(_, _, _)
SomaPeriodos(S, ws, we) ==
    IF S = {} THEN 0
    ELSE LET p == CHOOSE x \in S : TRUE
         IN  SobreposicaoPeriodo(p, ws, we) + SomaPeriodos(S \ {p}, ws, we)

\* the usages of the admissions of the presence cohort
UsosDaCoorte ==
    {u \in antibioticos_uso :
        u.id_internacao \in CoortePresenca(loc.id_setor, loc.inicio_inclusivo.t,
                                           loc.fim_exclusivo.t)}

\* the dosing periods of the cohort's usages of one antibiotic
PeriodosDe(nome) ==
    {p \in antibiotico_periodos :
        \E u \in UsosDaCoorte : u._id = p.id_ab_uso /\ OrStr(u.antibiotico, "desconhecido") = nome}

\* the cohort admissions with a period of the antibiotic that overlaps the window
ExpostosA(nome) ==
    {u.id_internacao : u \in {x \in UsosDaCoorte :
        /\ OrStr(x.antibiotico, "desconhecido") = nome
        /\ \E p \in antibiotico_periodos :
              /\ p.id_ab_uso = x._id
              /\ SobreposicaoPeriodo(p, loc.inicio_inclusivo.t, loc.fim_exclusivo.t) > 0}}

(* C19: for each antibiotic name the reported DOT is the sum, over the     *)
(* dosing periods of the admissions of the presence cohort, of the overlap *)
(* with the window in days (reported to 2 decimals); the ranking holds     *)
(* exactly the antibiotics with a period of positive overlap, each once;   *)
(* pacientes_expostos is the number of distinct admissions with such a     *)
(* period.                                                                 *)
C19_DotAntibioticos ==
    doc.built =>
        LET ws == loc.inicio_inclusivo.t
            we == loc.fim_exclusivo.t
            r == doc.antibioticos.ranking
            nomes == {OrStr(u.antibiotico, "desconhecido") : u \in UsosDaCoorte}
            positivos == {n \in nomes : ExpostosA(n) # {}}
        IN  /\ {r[i].antibiotico : i \in DOMAIN r} = positivos
            /\ Len(r) = Cardinality(positivos)
            /\ DOMAIN loc.dot_map = positivos
            /\ \A i \in DOMAIN r :
                  LET n == r[i].antibiotico
                  IN  /\ loc.dot_map[n] = SomaPeriodos(PeriodosDe(n), ws, we)
                      /\ MaisProximo(r[i].dot_total_d, loc.dot_map[n], SecsPerDay, 100)
                      /\ r[i].pacientes_expostos = Cardinality(ExpostosA(n))
            /\ doc.antibioticos.dot_por_antibiotico =
                  [i \in DOMAIN r |-> [antibiotico |-> r[i].antibiotico,
                                        dot_total_d |-> r[i].dot_total_d]]

\* two periods of one admission (1 h and 23 h of the window) give DOT 1.0 and one
\* exposed patient, while the period of I3, which is outside the cohort, and the
\* usage of I2, which has no period, are not in the ranking
C19_Witness ==
    /\ doc.built
    /\ loc.id_setor = "CTI-ADULTO"
    /\ loc.coorte_ids = {"I1", "I2"}
    /\ \E p \in antibiotico_periodos : p._id = "p3"
    /\ \E p, q \in antibiotico_periodos :
          /\ p._id = "p1" /\ q._id = "p2" /\ q.id_ab_uso = "u1"
          /\ SobreposicaoPeriodo(p, loc.inicio_inclusivo.t, loc.fim_exclusivo.t)
                = SecsPerHour
          /\ SobreposicaoPeriodo(q, loc.inicio_inclusivo.t, loc.fim_exclusivo.t)
                = (HoursPerDay - 1) * SecsPerHour
    /\ doc.antibioticos.ranking =
          <<[antibiotico |-> "meropenem", dot_total_d |-> 100, pacientes_expostos |-> 1]>>

-----------------------------------------------------------------------------
(* Snapshots for ventilated time: I1 with an open stay in CTI-ADULTO and I2 *)
(* with one in UCO; the ventilation document of I1 has up to two periods,   *)
(* closed or open, that of I2 none or one.                                  *)

\* the instants the ventilation periods start and end at
GridVentTempo == {0, HoursPerDay, 2 * HoursPerDay - 1, 2 * HoursPerDay, 3 * HoursPerDay}

InitVentTempo ==
    /\ now = 2 * HoursPerDay - 1
    /\ tz = 0
    /\ call = NoCall
    /\ ret = NoRet
    /\ internacoes = {Internacao("i1", "I1", "P1", Dt(0), None, NoneStr, NoneStr),
                      Internacao("i2", "I2", "P2", Dt(0), None, NoneStr, NoneStr)}
    /\ estadas = {Estada("e1", "I1", "CTI-ADULTO", Dt(0), None),
                  Estada("e2", "I2", "UCO", Dt(0), None)}
    /\ \E per1 \in SeqsAte2({Periodo(iv[1], iv[2]) : iv \in Intervalos(GridVentTempo, 0)}),
          per2 \in {<<>>, <<Periodo(Dt(HoursPerDay), Dt(2 * HoursPerDay - 1))>>,
                     <<Periodo(Dt(2 * HoursPerDay - 1), None)>>} :
          ventilacao = {Ventilacao("v1", "I1", <<>>, <<>>, per1),
                        Ventilacao("v2", "I2", <<>>, <<>>, per2)}
    /\ antibioticos_uso = {}
    /\ antibiotico_periodos = {}
    /\ paciente_dia_setor = {}
    /\ kpi_cti_gestao = {}
    /\ cti_setores = {}
    /\ setores = {}
    /\ dispositivo_uso = {}
    /\ labs = {}
    /\ _client = MongoClient(1)
    /\ _db = Database(_client)
    /\ thr = Parados
    /\ doc = NoDoc
    /\ loc = NoDoc

NextVentTempo == (\E t \in UmaThread : build_sem_antibioticos(t, Janelas)) \/ Tick(Leituras)

SpecVentTempo == InitVentTempo /\ [][NextVentTempo]_vars

RECURSIVE SomaVentilada(_, _, _, _)
\* sum over the sub-periods of overlapSeconds(start, end or now, window)
SomaVentilada(per, ws, we, clock) ==
    IF per = <<>> THEN 0
    ELSE LET p == Head(per)
             fim == IF p.fim.k = "none" THEN clock ELSE p.fim.t
         IN  Max(0, (Min(fim, we) - Max(p.inicio.t, ws)) * SecsPerHour)
             + SomaVentilada(Tail(per), ws, we, clock)

(* C20: for each ventilation record of an admission of the presence cohort *)
(* the sample is the sum over its sub-periods of the overlap of            *)
(* [start, end or now] with the window, in days; only records with a       *)
(* strictly positive sum give a sample and are counted in                  *)
(* quantidade_ventilados, and records of admissions outside the presence   *)
(* cohort never contribute.                                                *)
C20_TempoVentilado ==
    doc.built =>
        LET ws == loc.inicio_inclusivo.t
            we == loc.fim_exclusivo.t
            soma == [v \in VentsDaCoorte |-> SomaVentilada(v.periodos, ws, we, loc.now_utc)]
            positivos == {v \in VentsDaCoorte : soma[v] > 0}
            t == doc.tempo_ventilacao_no_periodo
        IN  /\ DOMAIN loc.vents = VentsDaCoorte
            /\ \A v \in VentsDaCoorte : loc.vents[v].total_secs = soma[v]
            /\ t.quantidade_ventilados = Cardinality(positivos)
            /\ positivos = {} => (t.media_d = 0 /\ t.mediana_d = 0 /\ t.p90_d = 0)
            /\ positivos # {} =>
                  MaisProximo(t.media_d, SumF(soma, positivos),
                              Cardinality(positivos) * SecsPerDay, 100)

\* the record of I1, of the cohort, has a closed period followed by an open one
\* that sum to 24 h within the window and gives the one sample, 1.0 day, while
\* the record of I2, ventilated in the window but outside the cohort, gives none
C20_Witness ==
    /\ doc.built
    /\ loc.id_setor = "CTI-ADULTO"
    /\ \E v \in ventilacao :
          /\ v.id_internacao = "I2"
          /\ SomaVentilada(v.periodos, loc.inicio_inclusivo.t, loc.fim_exclusivo.t,
                           loc.now_utc) > 0
          /\ v \notin DOMAIN loc.vents
    /\ \E v \in DOMAIN loc.vents :
          /\ Len(v.periodos) = 2
          /\ v.periodos[1].fim.k = "aware"
          /\ v.periodos[2].fim.k = "none"
          /\ loc.vents[v].total_secs = SecsPerDay
    /\ doc.tempo_ventilacao_no_periodo.quantidade_ventilados = 1
    /\ doc.tempo_ventilacao_no_periodo.media_d = 100

-----------------------------------------------------------------------------
(* Snapshots for the time to first intubation: I1 admitted at the start or  *)
(* in the course of day 0 with an open stay in either sector and up to two  *)
(* intubations in any order, before, inside or after the window; I2 in the  *)
(* sector with no ventilation document or one intubated on day 0.           *)

InitIntub ==
    /\ now = (MaxDay + 1) * HoursPerDay
    /\ tz = 0
    /\ call = NoCall
    /\ ret = NoRet
    /\ \E adm1 \in {0, HoursPerDay - 1, HoursPerDay}, st1 \in Setores :
          /\ internacoes = {Internacao("i1", "I1", "P1", Dt(adm1), None, NoneStr, NoneStr),
                            Internacao("i2", "I2", "P2", Dt(0), None, NoneStr, NoneStr)}
          /\ estadas = {Estada("e1", "I1", st1, Dt(adm1), None),
                        Estada("e2", "I2", "CTI-ADULTO", Dt(0), None)}
          /\ \E intu \in Seqs2({Dt(t) : t \in {g \in Grid : g >= adm1}}),
                V2 \in {{}, {Ventilacao("v2", "I2", <<Dt(HoursPerDay - 1)>>, <<>>, <<>>)}} :
                ventilacao = {Ventilacao("v1", "I1", intu, <<>>, <<>>)} \cup V2
    /\ antibioticos_uso = {}
    /\ antibiotico_periodos = {}
    /\ paciente_dia_setor = {}
    /\ kpi_cti_gestao = {}
    /\ cti_setores = {}
    /\ setores = {}
    /\ dispositivo_uso = {}
    /\ labs = {}
    /\ _client = MongoClient(1)
    /\ _db = Database(_client)
    /\ thr = Parados
    /\ doc = NoDoc
    /\ loc = NoDoc

NextIntub == (\E t \in UmaThread : build_sem_antibioticos(t, Janelas)) \/ Tick(Depois)

SpecIntub == InitIntub /\ [][NextIntub]_vars

\* the admission instant of the admission a ventilation record belongs to
AdmissaoDe(v) ==
    (CHOOSE x \in internacoes : x.id_internacao = v.id_internacao).admissao_ts.t

\* the earliest intubation instant of a record that has one
PrimeiraIntubacao(v) ==
    CHOOSE t \in {v.intubacoes_ts[k].t : k \in 1..Len(v.intubacoes_ts)} :
        \A j \in 1..Len(v.intubacoes_ts) : t <= v.intubacoes_ts[j].t

(* C21: every ventilation record of the presence cohort with at least one  *)
(* intubation instant gives one sample, (earliest intubation - admission)  *)
(* in hours, whether or not the intubation lies inside the window, and     *)
(* quantidade_intubados is the number of such records.                     *)
C21_TempoAteIntubacao ==
    doc.built =>
        LET Vi == {v \in VentsDaCoorte : Len(v.intubacoes_ts) >= 1}
            amostra == [v \in Vi |-> PrimeiraIntubacao(v) - AdmissaoDe(v)]
            t == doc.tempo_ate_intubacao_h
        IN  /\ {v \in DOMAIN loc.vents : loc.vents[v].intubado} = Vi
            /\ \A v \in Vi : loc.vents[v].tt_int_h = amostra[v]
            /\ t.quantidade_intubados = Cardinality(Vi)
            /\ Vi = {} => (t.media_h = 0 /\ t.mediana_h = 0 /\ t.p90_h = 0)
            /\ Vi # {} => MaisProximo(t.media_h, SumF(amostra, Vi), Cardinality(Vi), 100)

\* I1, admitted at 23:00 of day 0, is first intubated at 00:00 of day 2, after
\* the window, its other intubation being later still: its sample is 25 h, and
\* with the 23 h of I2, intubated before the window, the mean is 24 h
C21_Witness ==
    /\ doc.built
    /\ loc.id_setor = "CTI-ADULTO"
    /\ \E v \in DOMAIN loc.vents :
          /\ v.id_internacao = "I1"
          /\ AdmissaoDe(v) = HoursPerDay - 1
          /\ Len(v.intubacoes_ts) = 2
          /\ v.intubacoes_ts[1].t > v.intubacoes_ts[2].t
          /\ v.intubacoes_ts[2].t = loc.fim_exclusivo.t
          /\ loc.vents[v].tt_int_h = HoursPerDay + 1
    /\ doc.tempo_ate_intubacao_h.quantidade_intubados = 2
    /\ doc.tempo_ate_intubacao_h.media_h = 2400

-----------------------------------------------------------------------------
(* Snapshots for the daily device rows: up to two rows of I1 and two of I2, *)
(* in either sector, on days inside and outside windows of one and of two   *)
(* days.                                                                    *)

JanelasPd == {<<Dt(HoursPerDay), Dt(2 * HoursPerDay)>>,
              <<Dt(HoursPerDay), Dt(3 * HoursPerDay)>>}

InitPd ==
    /\ now = (MaxDay + 1) * HoursPerDay
    /\ tz = 0
    /\ call = NoCall
    /\ ret = NoRet
    /\ internacoes = {Internacao("i1", "I1", "P1", Dt(0), None, NoneStr, NoneStr),
                      Internacao("i2", "I2", "P2", Dt(0), None, NoneStr, NoneStr)}
    /\ estadas = {Estada("e1", "I1", "CTI-ADULTO", Dt(0), None),
                  Estada("e2", "I2", "CTI-ADULTO", Dt(0), None)}
    /\ ventilacao = {}
    /\ antibioticos_uso = {}
    /\ antibiotico_periodos = {}
    /\ \E R1 \in {{}} \cup {{PacienteDia("r1", "I1", st, Dt(d), f[1], f[2], f[3], f[4])} :
                      st \in Setores, d \in {0, HoursPerDay, 2 * HoursPerDay},
                      f \in {<<FALSE, FALSE, FALSE, FALSE>>, <<TRUE, FALSE, FALSE, FALSE>>,
                              <<FALSE, TRUE, FALSE, TRUE>>, <<FALSE, FALSE, TRUE, FALSE>>,
                              <<TRUE, TRUE, TRUE, TRUE>>}},
          R2 \in {{}} \cup {{PacienteDia("r2", "I1", "CTI-ADULTO", Dt(d), cvc, FALSE,
                                         FALSE, FALSE)} :
                      d \in {HoursPerDay, 2 * HoursPerDay}, cvc \in BOOLEAN},
          R3 \in {{}} \cup {{PacienteDia("r3", "I2", "CTI-ADULTO", Dt(HoursPerDay), cvc,
                                         FALSE, FALSE, vm)} :
                      cvc \in BOOLEAN, vm \in BOOLEAN},
          R4 \in {{}, {PacienteDia("r4", "I2", "UCO", Dt(HoursPerDay), TRUE,
                                    TRUE, TRUE, TRUE)}} :
          paciente_dia_setor = R1 \cup R2 \cup R3 \cup R4
    /\ kpi_cti_gestao = {}
    /\ cti_setores = {}
    /\ setores = {}
    /\ dispositivo_uso = {}
    /\ labs = {}
    /\ _client = MongoClient(1)
    /\ _db = Database(_client)
    /\ thr = Parados
    /\ doc = NoDoc
    /\ loc = NoDoc

NextPd == (\E t \in UmaThread : build_sem_antibioticos(t, JanelasPd)) \/ Tick(Depois)

SpecPd == InitPd /\ [][NextPd]_vars

\* the device-day rows of the sector with window.start <= day < window.end
LinhasDoPeriodo ==
    {r \in paciente_dia_setor :
        /\ r.id_setor = loc.id_setor
        /\ loc.inicio_inclusivo.t <= r.data.t
        /\ r.data.t < loc.fim_exclusivo.t}

\* v, in units of 10^-4, is safeRatio(num, den): 0 for den = 0, else num/den
\* rounded to 4 decimals
SafeRatio(v, num, den) ==
    IF den = 0 THEN v = 0 ELSE MaisProximo(v, num, den, 10000)

\* rows with the flag, and distinct admissions with a row with the flag
DiasCom(flag) == Cardinality({r \in LinhasDoPeriodo : r[flag]})
AdmissoesCom(flag) ==
    Cardinality({r.id_internacao : r \in {x \in LinhasDoPeriodo : x[flag]}})

(* C22: the device figures are computed only from the device-day rows of   *)
(* the sector with window.start <= day < window.end: each utilization is   *)
(* safeRatio(device days, patient days), each prevalence is                *)
(* safeRatio(distinct admissions with the flag, distinct admissions with   *)
(* any row), every ratio lies in [0, 1], and all are 0 without rows.       *)
C22_Dispositivos ==
    doc.built =>
        LET dias == Cardinality(LinhasDoPeriodo)
            total == Cardinality({r.id_internacao : r \in LinhasDoPeriodo})
            razoes == {doc.utilizacao_cvc.percentual, doc.utilizacao_foley.percentual,
                       doc.utilizacao_art_line.percentual,
                       doc.pacientes_com_cvc.percentual,
                       doc.pacientes_com_foley.percentual,
                       doc.pacientes_com_art_line.percentual,
                       doc.proporcao_pacientes_ventilados.percentual}
        IN  /\ doc.utilizacao_cvc.patient_days = dias
            /\ doc.utilizacao_cvc.days = DiasCom("cvc")
            /\ doc.utilizacao_foley.days = DiasCom("foley")
            /\ doc.utilizacao_art_line.days = DiasCom("art_line")
            /\ SafeRatio(doc.utilizacao_cvc.percentual, DiasCom("cvc"), dias)
            /\ SafeRatio(doc.utilizacao_foley.percentual, DiasCom("foley"), dias)
            /\ SafeRatio(doc.utilizacao_art_line.percentual, DiasCom("art_line"), dias)
            /\ doc.pacientes_com_cvc.total_pacientes = total
            /\ doc.pacientes_com_cvc.pacientes = AdmissoesCom("cvc")
            /\ doc.proporcao_pacientes_ventilados.pacientes_ventilados
                  = AdmissoesCom("ventilado")
            /\ SafeRatio(doc.pacientes_com_cvc.percentual, AdmissoesCom("cvc"), total)
            /\ SafeRatio(doc.pacientes_com_foley.percentual, AdmissoesCom("foley"), total)
            /\ SafeRatio(doc.pacientes_com_art_line.percentual,
                         AdmissoesCom("art_line"), total)
            /\ SafeRatio(doc.proporcao_pacientes_ventilados.percentual,
                         AdmissoesCom("ventilado"), total)
            /\ \A x \in razoes : 0 <= x /\ x <= 10000
            /\ LinhasDoPeriodo = {} => razoes = {0}

\* in the window of two days I1 has a row on each day, one of them with a
\* catheter, and I2 a row without: one device day in three patient days and one
\* admission in two, while a row with a catheter outside the window or in the
\* other sector is in the collection
C22_Witness ==
    /\ doc.built
    /\ loc.fim_exclusivo.t - loc.inicio_inclusivo.t = 2 * HoursPerDay
    /\ \E r \in paciente_dia_setor : r.cvc /\ r \notin LinhasDoPeriodo
    /\ doc.utilizacao_cvc.patient_days = 3
    /\ doc.utilizacao_cvc.days = 1
    /\ doc.utilizacao_cvc.percentual = 3333
    /\ doc.pacientes_com_cvc.total_pacientes = 2
    /\ doc.pacientes_com_cvc.percentual = 5000

-----------------------------------------------------------------------------
(* Snapshots for empty inputs: no admission at all, or one admission I1     *)
(* whose stay, discharge, ventilation, daily row and antibiotic are in one  *)
(* sector, in or out of the window, while the report is asked for either    *)
(* sector.                                                                  *)

InitVazio ==
    /\ now = (MaxDay + 1) * HoursPerDay
    /\ tz = 0
    /\ call = NoCall
    /\ ret = NoRet
    /\ \E tem1 \in BOOLEAN,
          alta1 \in {None, Dt(2 * HoursPerDay - 1), Dt(MaxDay * HoursPerDay)},
          E1 \in UmaEstada("e1", "I1", 0, Setores, DayGrid),
          V1 \in {{}, {Ventilacao("v1", "I1", <<Dt(HoursPerDay)>>, <<Dt(2 * HoursPerDay)>>,
                                  <<Periodo(Dt(HoursPerDay), Dt(2 * HoursPerDay))>>)}},
          R1 \in {{}} \cup {{PacienteDia("r1", "I1", st, Dt(HoursPerDay), TRUE, FALSE,
                                         FALSE, TRUE)} : st \in Setores},
          P1 \in {{}, {AntibioticoPeriodo("p1", "u1", Dt(HoursPerDay),
                                          Dt(2 * HoursPerDay))}} :
          IF tem1
          THEN /\ internacoes = {Internacao("i1", "I1", "P1", Dt(0), alta1, "alta", NoneStr)}
               /\ estadas = E1
               /\ ventilacao = V1
               /\ antibioticos_uso = {AntibioticoUso("u1", "I1", "meropenem")}
               /\ antibiotico_periodos = P1
               /\ paciente_dia_setor = R1
          ELSE /\ internacoes = {}
               /\ estadas = {}
               /\ ventilacao = {}
               /\ antibioticos_uso = {}
               /\ antibiotico_periodos = {}
               /\ paciente_dia_setor = {}
    /\ kpi_cti_gestao = {}
    /\ cti_setores = {}
    /\ setores = {}
    /\ dispositivo_uso = {}
    /\ labs = {}
    /\ _client = MongoClient(1)
    /\ _db = Database(_client)
    /\ thr = Parados
    /\ doc = NoDoc
    /\ loc = NoDoc

NextVazio == (\E t \in UmaThread : build_kpi(t, Janelas)) \/ Tick(Depois)

SpecVazio == InitVazio /\ [][NextVazio]_vars

\* the sector has no matching stay, no discharge and no device-day row in the
\* window (and with that no ventilation record and no antibiotic period of a
\* cohort admission)
SetorVazio ==
    /\ CoortePresenca(loc.id_setor, loc.inicio_inclusivo.t, loc.fim_exclusivo.t) = {}
    /\ CoorteAltas(loc.id_setor, loc.inicio_inclusivo.t, loc.fim_exclusivo.t) = {}
    /\ LinhasDoPeriodo = {}

\* a statistic triple (0, 0, 0) with its count 0, under the given field names
TriploZero(media, mediana, p, quantidade) ==
    (media :> 0) @@ (mediana :> 0) @@ (p :> 0) @@ (quantidade :> 0)

(* C23: when the sector has no matching stays, no discharges, no           *)
(* ventilation records, no device-day rows and no antibiotic periods, the  *)
(* build returns the complete document in which every statistic triple is  *)
(* (0, 0, 0), every count and rate is 0, and the destination distribution  *)
(* and the antibiotic ranking are empty.                                   *)
C23_EntradasVazias ==
    (doc.built /\ SetorVazio) =>
        doc = [built |-> TRUE,
               periodo |-> [inicio |-> data_iso_utc(loc.inicio_inclusivo),
                            fim |-> data_iso_utc(loc.fim_exclusivo)],
               id_setor |-> loc.id_setor,
               coorte |-> [pacientes_no_periodo |-> 0],
               los_periodo_setor |->
                   TriploZero("media_d", "mediana_d", "p90_d", "pacientes_no_periodo"),
               los_por_alta_no_periodo |->
                   TriploZero("media_d", "mediana_d", "p90_d", "quantidade_saidas"),
               mortalidade |-> [obitos |-> 0, saidas |-> 0, taxa |-> 0],
               readmissao_48h |-> [readmissoes |-> 0, altas |-> 0, taxa |-> 0],
               reintubacao_48h |-> [reintubacoes |-> 0, extubacoes |-> 0, taxa |-> 0],
               destino_alta |-> <<>>,
               antibioticos |-> [ranking |-> <<>>, dot_por_antibiotico |-> <<>>],
               tempo_ate_intubacao_h |->
                   TriploZero("media_h", "mediana_h", "p90_h", "quantidade_intubados"),
               tempo_ventilacao_no_periodo |->
                   TriploZero("media_d", "mediana_d", "p90_d", "quantidade_ventilados"),
               proporcao_pacientes_ventilados |->
                   [pacientes_ventilados |-> 0, total_pacientes |-> 0, percentual |-> 0],
               utilizacao_cvc |-> [days |-> 0, patient_days |-> 0, percentual |-> 0],
               pacientes_com_cvc |->
                   [pacientes |-> 0, total_pacientes |-> 0, percentual |-> 0],
               utilizacao_foley |-> [days |-> 0, patient_days |-> 0, percentual |-> 0],
               pacientes_com_foley |->
                   [pacientes |-> 0, total_pacientes |-> 0, percentual |-> 0],
               utilizacao_art_line |-> [days |-> 0, patient_days |-> 0, percentual |-> 0],
               pacientes_com_art_line |->
                   [pacientes |-> 0, total_pacientes |-> 0, percentual |-> 0]]

\* the report of a sector without data, over a snapshot in which the other sector
\* has a stay and a daily row in the window, a discharge, a ventilation record
\* and an antibiotic period
C23_Witness ==
    /\ doc.built
    /\ SetorVazio
    /\ \E e \in estadas : e.id_setor # loc.id_setor /\ e.inicio.t <= loc.inicio_inclusivo.t
                          /\ e.fim.k = "none"
    /\ \E r \in paciente_dia_setor : r.id_setor # loc.id_setor
    /\ \E x \in internacoes : x.alta_ts.t = 2 * HoursPerDay - 1
    /\ ventilacao # {}
    /\ antibiotico_periodos # {}
    /\ doc.coorte.pacientes_no_periodo = 0
    /\ doc.antibioticos.ranking = <<>>

-----------------------------------------------------------------------------
(* The endpoint GET /kpi/gestao (main.kpi_gestao).  A request carries the   *)
(* sector as typed, two dates that match the pattern of the query           *)
(* parameters, and the flag persistir.  The parameters and the locals of    *)
(* the handler live in the frame of the worker thread that serves the       *)
(* request.  Every blocking call of the storage is a step, and under any of *)
(* them the storage may fail.                                               *)

\* a string YYYY-MM-DD that names day d; Bad is one that names no day
Data(d) == [k |-> "date", t |-> d]

\* HTTPException(status, ...), as the response it is translated into
HTTPException(status) == [built |-> FALSE, status |-> status]

\* date.fromisoformat(s), or the HTTPException(400) of line 39
_parse_date_yyyy_mm_dd(s) == IF s.k = "date" THEN s ELSE HTTPException(400)

_dt_utc_mut_sem_dia(d, end_exclusive) == Dt(d.t * HoursPerDay)

\* datetime(d.year, d.month, d.day, tzinfo=utc) + (1 day if end_exclusive)
_dt_utc(d, end_exclusive) ==
    Dt((d.t + (IF end_exclusive THEN 1 ELSE 0)) * HoursPerDay)

\* a document of cti.setores or setores
Setor(id, id_setor, nome) == [_id |-> id, id_setor |-> id_setor, nome |-> nome]

\* _norm_basic on the names the requests and the documents carry: None is "",
\* NFKC, the hyphens to "-", the blanks stripped and collapsed
_norm_basic(s) ==
    CASE s = NoneStr -> ""
      [] s = " cti  adulto" -> "cti adulto"
      [] OTHER -> s

\* _norm_code: the blanks of _norm_basic(s) to "-", then upper case
_norm_code(s) ==
    LET b == _norm_basic(s)
    IN  CASE b = "cti adulto" -> "CTI-ADULTO"
          [] b = "CTI Adulto" -> "CTI-ADULTO"
          [] b = "Cti Adulto" -> "CTI-ADULTO"
          [] b = "ctiadulto" -> "CTIADULTO"
          [] b = "Ctiadulto" -> "CTIADULTO"
          [] b = "uco" -> "UCO"
          [] b = "Uco" -> "UCO"
          [] b = "Unidade Coronariana" -> "UNIDADE-CORONARIANA"
          [] b = "Xyz" -> "XYZ"
          [] OTHER -> b

_norm_name(s) == _norm_basic(s)

\* code.replace("-", por) of a code, por being " " or ""
sem_hifen(code, por) ==
    CASE code = "CTI-ADULTO" -> IF por = " " THEN "CTI ADULTO" ELSE "CTIADULTO"
      [] code = "UNIDADE-CORONARIANA" ->
            IF por = " " THEN "UNIDADE CORONARIANA" ELSE "UNIDADECORONARIANA"
      [] OTHER -> code

\* str.title() of a code without hyphens
title(s) ==
    CASE s = "CTI ADULTO" -> "Cti Adulto"
      [] s = "CTIADULTO" -> "Ctiadulto"
      [] s = "UCO" -> "Uco"
      [] s = "UNIDADE CORONARIANA" -> "Unidade Coronariana"
      [] s = "XYZ" -> "Xyz"
      [] OTHER -> s

\* strip_accents(x).lower() of a name (none of the names has an accent)
strip_accents_lower(x) ==
    CASE x = "CTI Adulto" -> "cti adulto"
      [] x = "Cti Adulto" -> "cti adulto"
      [] x = "Ctiadulto" -> "ctiadulto"
      [] x = "Uco" -> "uco"
      [] x = "Unidade Coronariana" -> "unidade coronariana"
      [] x = "XYZ" -> "xyz"
      [] x = "Xyz" -> "xyz"
      [] OTHER -> x

\* the codes of the sectors in the order of sorted(...)
CodigosOrdenados == <<"CTI-ADULTO", "CTIADULTO", "UCO", "UNIDADE-CORONARIANA", "XYZ">>

\* the collections _setores_list looks for, in the order it looks for them:
\* the two of the sectors, then the three that hold an id_setor (each of these
\* under the one of its two names that exists)
ColsSetores == <<"cti_setores", "setores">>
ColsIdSetor == <<"estadas", "paciente_dia_setor", "kpi_cti_gestao">>

\* db.list_collection_names(), of the collections _setores_list looks for: a
\* collection exists when it holds a document
list_collection_names(db) ==
    SelectSeq(ColsSetores \o ColsIdSetor, LAMBDA c : db[c] # {})

\* the documents of col in every order a cursor without a sort may return them
cursor(col) ==
    {s \in [1..Cardinality(col) -> col] : \A i, j \in DOMAIN s : s[i] = s[j] => i = j}

RECURSIVE out_de(_, _, _)
\* lines 68-75: the loop over docs from its i-th document on, out being the
\* list so far; a document without a code, or with a code already seen, is
\* skipped
out_de(docs, i, out) ==
    IF i > Len(docs) THEN out
    ELSE LET raw == _norm_code(OrStr(docs[i].id_setor, ""))
             nome == _norm_name(OrStr(docs[i].nome, title(sem_hifen(raw, " "))))
         IN  IF raw = "" \/ \E j \in DOMAIN out : out[j].id_setor = raw
             THEN out_de(docs, i + 1, out)
             ELSE out_de(docs, i + 1, Append(out, [id_setor |-> raw, nome |-> nome]))

\* lines 86-89: the normalised codes of db[col].distinct("id_setor") that are
\* not empty
distinct_norm(col) == {_norm_code(OrStr(c, "")) : c \in {d.id_setor : d \in col}} \ {""}

\* line 92: the list made of the sorted candidates
lista_dos_candidatos(candidatos) ==
    LET s == SelectSeq(CodigosOrdenados, LAMBDA c : c \in candidatos)
    IN  [i \in DOMAIN s |-> [id_setor |-> s[i], nome |-> title(sem_hifen(s[i], " "))]]

\* the lists _setores_list may return over the snapshot db when no call fails:
\* the list of the first collection of sectors that yields a code, else the
\* one of the distinct id_setor
_setores_list(db) ==
    LET de(c) == {out_de(docs, 1, <<>>) : docs \in cursor(db[c])}
        vazia(c) == <<>> \in de(c)
    IN  IF ~vazia("cti_setores") THEN de("cti_setores")
        ELSE IF ~vazia("setores") THEN de("setores")
        ELSE {lista_dos_candidatos(UNION {distinct_norm(db[ColsIdSetor[i]]) :
                                 i \in DOMAIN ColsIdSetor})}

\* lines 94-108: by_code holds each code under itself and under its two
\* spellings without hyphen, by_name under the key of its name; where two
\* sectors of the list share a key, the later one stays
_build_resolvers(lista) ==
    LET code(i) == _norm_code(lista[i].id_setor)
        name(i) == _norm_name(OrStr(lista[i].nome, title(sem_hifen(code(i), " "))))
        chaves(i) == {code(i), sem_hifen(code(i), " "), sem_hifen(code(i), "")}
        chave(i) == strip_accents_lower(name(i))
        ultimo(I) == CHOOSE i \in I : \A j \in I : j <= i
    IN  [by_code |->
            [k \in UNION {chaves(i) : i \in DOMAIN lista} |->
                code(ultimo({i \in DOMAIN lista : k \in chaves(i)}))],
         by_name |->
            [n \in {chave(i) : i \in DOMAIN lista} |->
                code(ultimo({i \in DOMAIN lista : chave(i) = n}))]]

\* lines 110-127: the canonical code of the sector among those of lista, found
\* by its code, by one of the two spellings without hyphen or by its name, or
\* the HTTPException(404) of line 127
_canonicalize_setor(lista, setor_input) ==
    LET s_in_raw == OrStr(setor_input, "")
        s_in == _norm_code(s_in_raw)
        r == _build_resolvers(lista)
        name_key == strip_accents_lower(_norm_name(s_in_raw))
        achado(code) == [built |-> TRUE, code |-> code]
    IN  IF s_in \in DOMAIN r.by_code THEN achado(r.by_code[s_in])
        ELSE IF sem_hifen(s_in, " ") \in DOMAIN r.by_code
        THEN achado(r.by_code[sem_hifen(s_in, " ")])
        ELSE IF sem_hifen(s_in, "") \in DOMAIN r.by_code
        THEN achado(r.by_code[sem_hifen(s_in, "")])
        ELSE IF name_key \in DOMAIN r.by_name THEN achado(r.by_name[name_key])
        ELSE HTTPException(404)

\* filtro of line 178 applied to a stored document
filtro(d, kpi) ==
    /\ d.id_setor = kpi.id_setor
    /\ d.periodo.inicio = kpi.periodo.inicio
    /\ d.periodo.fim = kpi.periodo.fim

\* meta of line 179
meta(clock) ==
    [versao |-> "1.2.3", gerado_em |-> data_iso_utc(Dt(clock)), status_calculo |-> "ok"]

\* the _id the server gives an inserted document
ObjectId(col) == 1 + Cardinality(col)

\* the insertion of an upsert that matched nothing
upsert_insere(col, payload) == col \cup {payload @@ [_id |-> ObjectId(col)]}

\* $set on the matching document d: the fields of payload replace those of d,
\* which keeps its others
set_em(col, d, payload) == (col \ {d}) \cup {payload @@ d}

tenta_build_mut_repete(nucleo) ==
    [done |-> TRUE, status |-> 500, v |-> HTTPException(500), nucleo |-> nucleo + 1,
     escritas |-> 0]

\* the response: its status and body, and how many times the handler called the
\* core and wrote to the collection of reports
Resposta(status, v, nucleo, escritas) ==
    [done |-> TRUE, status |-> status, v |-> v, nucleo |-> nucleo, escritas |-> escritas]

\* lines 170-174: the exception that leaves the one call of the core, the
\* nucleo-th the handler made, leaves the try block as HTTPException(500)
tenta_build(nucleo) == Resposta(500, HTTPException(500), nucleo, 0)

\* an exception of the driver that no handler catches: the server answers 500
\* (Internal Server Error)
nao_tratada(nucleo) == Resposta(500, Raise("PyMongoError"), nucleo, 0)

\* the sector names and the dates the requests carry
SetoresPedidos == {" cti  adulto", "Unidade Coronariana", "XYZ"}
IniciosPedidos == {Data(1), Data(3), Bad}
FinsPedidos == {Data(1), Data(2)}

\* the requests
Pedidos ==
    [setor : SetoresPedidos, inicio : IniciosPedidos, fim : FinsPedidos,
     persistir : BOOLEAN]

\* the requests that overlap: the report of day 1 of one sector, persisted
PedidosSobrepostos ==
    {p \in Pedidos : /\ p.setor = " cti  adulto" /\ p.inicio = Data(1)
                     /\ p.fim = Data(1) /\ p.persistir}

\* the frame of the handler before a request: its parameters, the window of
\* lines 166-167, the locals of _setores_list (cols the collections that exist,
\* i the one its loops are at, candidatos), nucleo the calls of the core made,
\* escritas the writes made, gerado_em the reading of line 179, resp the
\* response
NoH == [built |-> FALSE, setor |-> "", inicio |-> None, fim |-> None,
        persistir |-> FALSE, w |-> <<None, None>>, cols |-> <<>>, i |-> 0,
        candidatos |-> {}, nucleo |-> 0, escritas |-> 0, gerado_em |-> 0,
        resp |-> [done |-> FALSE]]

\* the steps of the handler leave the clock, the clinical collections, the
\* sectors and the connection alone
SoPedido ==
    UNCHANGED <<now, tz, call, ret, internacoes, estadas, ventilacao, antibioticos_uso,
                antibiotico_periodos, paciente_dia_setor, cti_setores, setores,
                dispositivo_uso, labs, _client, _db, doc, loc>>

\* the frame of thread t with the fields f of its handler changed
ComH(t, f) == [thr EXCEPT ![t].h = f @@ thr[t].h]

\* the request of thread t ends with the response r: the frames of the handler
\* and of the core are gone, the request and its response remain
Responde(t, r) ==
    /\ thr' = [thr EXCEPT
                 ![t] = [Parado EXCEPT
                           !.pc = "done",
                           !.conc = thr[t].conc,
                           !.criados = thr[t].criados,
                           !.falhas = thr[t].falhas,
                           !.h = [NoH EXCEPT !.built = TRUE,
                                             !.setor = thr[t].h.setor,
                                             !.inicio = thr[t].h.inicio,
                                             !.fim = thr[t].h.fim,
                                             !.persistir = thr[t].h.persistir,
                                             !.nucleo = r.nucleo,
                                             !.escritas = r.escritas,
                                             !.resp = r]]]
    /\ UNCHANGED kpi_cti_gestao
    /\ SoPedido

\* a request of P arrives: db: Database = Depends(get_db) is resolved first
kpi_gestao_entra(t, P) ==
    /\ thr[t].pc \in {"idle", "done"}
    /\ Criados < MaxClientes
    /\ \E p \in P :
          thr' = [thr EXCEPT
                    ![t] = [Parado EXCEPT
                              !.pc = "l22", !.ra = "l162", !.rb = "l176",
                              !.conc = \E u \in Threads \ {t} :
                                          thr[u].pc \notin {"idle", "done"},
                              !.criados = thr[t].criados,
                              !.falhas = thr[t].falhas,
                              !.h = [NoH EXCEPT !.built = TRUE,
                                                !.setor = p.setor,
                                                !.inicio = p.inicio,
                                                !.fim = p.fim,
                                                !.persistir = p.persistir]]]
    /\ UNCHANGED kpi_cti_gestao
    /\ SoPedido

\* lines 162-168: the dates are parsed and compared, the window is made, and
\* _setores_list asks the server for the names of its collections (line 64)
valida(t) ==
    /\ thr[t].pc = "l162"
    /\ LET ini_d == _parse_date_yyyy_mm_dd(thr[t].h.inicio)
           fim_d == _parse_date_yyyy_mm_dd(thr[t].h.fim)
       IN  IF ini_d = HTTPException(400) \/ fim_d = HTTPException(400)
           THEN Responde(t, Resposta(400, HTTPException(400), 0, 0))
           ELSE IF ini_d.t > fim_d.t
           THEN Responde(t, Resposta(400, HTTPException(400), 0, 0))
           ELSE /\ thr' = [ComH(t, [w |-> <<_dt_utc(ini_d, FALSE), _dt_utc(fim_d, TRUE)>>])
                             EXCEPT ![t].pc = "l64"]
                /\ UNCHANGED kpi_cti_gestao
                /\ SoPedido

\* lines 93-127 and 168-171, 85, 100: with the list of _setores_list the
\* sector is resolved, and the handler either raises the HTTPException(404) or
\* calls the core, which enters get_db
canonicaliza(t, lista) ==
    LET setor_canonico == _canonicalize_setor(lista, thr[t].h.setor)
    IN  IF setor_canonico = HTTPException(404)
        THEN Responde(t, Resposta(404, HTTPException(404), 0, 0))
        ELSE /\ thr' = [ComH(t, [cols |-> <<>>, i |-> 0, candidatos |-> {},
                                 nucleo |-> thr[t].h.nucleo + 1])
                          EXCEPT ![t].pc = "l22",
                                 ![t].ra = "l103",
                                 ![t].req = [id_setor |-> setor_canonico.code,
                                             w |-> thr[t].h.w],
                                 ![quadro(t)].l = [built |-> FALSE,
                                                   id_setor |-> setor_canonico.code,
                                                   inicio_inclusivo |-> thr[t].h.w[1],
                                                   fim_exclusivo |-> thr[t].h.w[2]]]
             /\ UNCHANGED kpi_cti_gestao
             /\ SoPedido

\* _setores_list goes on to the i-th of the collections cols, with the find of
\* line 67 or the distinct of line 86, or past the last one returns the list
\* of the candidates (line 92)
segue(t, cols, i, candidatos) ==
    IF i <= Len(cols)
    THEN /\ thr' = [ComH(t, [cols |-> cols, i |-> i, candidatos |-> candidatos])
                      EXCEPT ![t].pc = IF \E j \in DOMAIN ColsSetores :
                                               ColsSetores[j] = cols[i]
                                       THEN "l67" ELSE "l86"]
         /\ UNCHANGED kpi_cti_gestao
         /\ SoPedido
    ELSE canonicaliza(t, lista_dos_candidatos(candidatos))

\* line 64: the names of the collections arrive, or the call raises, which
\* nothing catches
nomes_cols(t) ==
    /\ thr[t].pc = "l64"
    /\ \E ok \in BOOLEAN :
          IF ok THEN segue(t, list_collection_names(get_db), 1, {})
          ELSE Responde(t, nao_tratada(0))

\* lines 67-77: the documents of a collection of sectors arrive in the order
\* of the cursor; the list made of them is the result when it is not empty.
\* An exception of the find is caught by nothing
setores_find(t) ==
    /\ thr[t].pc = "l67"
    /\ LET h == thr[t].h
       IN  \/ \E docs \in cursor(get_db[h.cols[h.i]]) :
                 LET out == out_de(docs, 1, <<>>)
                 IN  IF out # <<>> THEN canonicaliza(t, out)
                     ELSE segue(t, h.cols, h.i + 1, {})
           \/ Responde(t, nao_tratada(0))

\* lines 84-91: the distinct id_setor of one of the collections that exist;
\* an exception of the call is caught and the collection yields nothing
distinct_id_setor(t) ==
    /\ thr[t].pc = "l86"
    /\ LET h == thr[t].h
       IN  \E ok \in BOOLEAN :
              segue(t, h.cols, h.i + 1,
                    IF ok THEN h.candidatos \cup distinct_norm(get_db[h.cols[h.i]])
                    ELSE h.candidatos)

\* the lines of the core at which the handler waits for the storage
NoNucleo == {"l103", "l104", "l105", "l106", "l107", "l108", "l116", "l147", "l189",
             "l279", "l284", "l325", "l384", "l393"}

\* the storage fails under the blocking call the core waits on, the exception
\* leaves the core, and lines 172-174 turn it into the response
excecao(t) ==
    /\ thr[t].pc \in NoNucleo
    /\ thr[t].h.built
    /\ Responde(t, tenta_build(thr[t].h.nucleo))

\* lines 176-177: without persistir the document is the response (line 183);
\* with it _resolve_col asks for the names of the collections
persistir_ou_devolve(t) ==
    /\ thr[t].pc = "l176"
    /\ IF thr[t].h.persistir
       THEN /\ thr' = [thr EXCEPT ![t].pc = "l177"]
            /\ UNCHANGED kpi_cti_gestao
            /\ SoPedido
       ELSE Responde(t, Resposta(200, thr[t].v, thr[t].h.nucleo, 0))

\* lines 177-181: the names of the collections arrive, the clock is read for
\* gerado_em and update_one is sent; an exception of line 177 is caught by
\* nothing
le_gerado_em(t) ==
    /\ thr[t].pc = "l177"
    /\ \E ok \in BOOLEAN :
          IF ok
          THEN /\ thr' = [ComH(t, [gerado_em |-> now]) EXCEPT ![t].pc = "l181"]
               /\ UNCHANGED kpi_cti_gestao
               /\ SoPedido
          ELSE Responde(t, nao_tratada(thr[t].h.nucleo))

\* line 181, at the server: the filter is evaluated.  A document that matches
\* is updated at once; when none does the server goes on to insert, and no
\* unique index (the repository creates none) stands between the query and the
\* insertion.  An exception of the call is caught by nothing
update_one_consulta(t) ==
    /\ thr[t].pc = "l181"
    /\ LET kpi == thr[t].v
           payload == kpi @@ meta(thr[t].h.gerado_em)
           M == {d \in kpi_cti_gestao : filtro(d, kpi)}
       IN  \/ /\ M # {}
              /\ \E d \in M : kpi_cti_gestao' = set_em(kpi_cti_gestao, d, payload)
              /\ thr' = [ComH(t, [escritas |-> thr[t].h.escritas + 1])
                           EXCEPT ![t].pc = "l183"]
              /\ SoPedido
           \/ /\ M = {}
              /\ thr' = [thr EXCEPT ![t].pc = "l181i"]
              /\ UNCHANGED kpi_cti_gestao
              /\ SoPedido
           \/ Responde(t, nao_tratada(thr[t].h.nucleo))

\* line 181, at the server: the insertion of the upsert that matched nothing
update_one_insere(t) ==
    /\ thr[t].pc = "l181i"
    /\ kpi_cti_gestao' =
          upsert_insere(kpi_cti_gestao, thr[t].v @@ meta(thr[t].h.gerado_em))
    /\ thr' = [ComH(t, [escritas |-> thr[t].h.escritas + 1]) EXCEPT ![t].pc = "l183"]
    /\ SoPedido

\* line 183: update_one has returned, and the document is the response
devolve_doc(t) ==
    /\ thr[t].pc = "l183"
    /\ Responde(t, Resposta(200, thr[t].v, thr[t].h.nucleo, thr[t].h.escritas))

\* the handler of GET /kpi/gestao serving the requests of P, the core it calls
\* included
kpi_gestao(t, P) ==
    \/ kpi_gestao_entra(t, P)
    \/ Testa(t)
    \/ Reutiliza(t)
    \/ Constroi(t)
    \/ Ping(t)
    \/ Indexa(t)
    \/ Atribui(t)
    \/ Devolve(t)
    \/ valida(t)
    \/ nomes_cols(t)
    \/ setores_find(t)
    \/ distinct_id_setor(t)
    \/ _resolve_col(t)
    \/ agora(t)
    \/ estadas_find(t)
    \/ saidas_aggregate(t)
    \/ readm_aggregate(t)
    \/ vents_find(t)
    \/ it_map_find(t)
    \/ pd_aggregate(t)
    \/ ab_usos_find(t)
    \/ per_cur_find(t)
    \/ build_retorna(t)
    \/ excecao(t)
    \/ persistir_ou_devolve(t)
    \/ le_gerado_em(t)
    \/ update_one_consulta(t)
    \/ update_one_insere(t)
    \/ devolve_doc(t)

\* the response to the finished request of thread t: the one of the handler,
\* or, when the exception of the ping left get_db under Depends(get_db) and the
\* handler was never called, the 500 of that exception
resposta_gestao(t) ==
    IF thr[t].h.resp.done THEN thr[t].h.resp ELSE Resposta(500, thr[t].v, 0, 0)

\* Snapshot for the endpoint: I1 with an open stay in CTI-ADULTO and a closed
\* course of an antibiotic, I2 discharged from the sector, an empty collection
\* of reports.
DadosPedido ==
    /\ now = 2 * HoursPerDay - 1
    /\ tz = 0
    /\ call = NoCall
    /\ ret = NoRet
    /\ internacoes =
          {Internacao("i1", "I1", "P1", Dt(0), None, NoneStr, NoneStr),
           Internacao("i2", "I2", "P2", Dt(0), Dt(2 * HoursPerDay - 1), "obito", NoneStr)}
    /\ estadas = {Estada("e1", "I1", "CTI-ADULTO", Dt(0), None),
                  Estada("e2", "I2", "CTI-ADULTO", Dt(0), Dt(2 * HoursPerDay - 1))}
    /\ ventilacao = {}
    /\ antibioticos_uso = {AntibioticoUso("a1", "I1", "Meropenem")}
    /\ antibiotico_periodos =
          {AntibioticoPeriodo("p1", "a1", Dt(HoursPerDay), Dt(HoursPerDay + 12))}
    /\ paciente_dia_setor = {}
    /\ kpi_cti_gestao = {}
    /\ dispositivo_uso = {}
    /\ labs = {}
    /\ thr = Parados
    /\ doc = NoDoc
    /\ loc = NoDoc

\* the process has served a request before and holds the handle, or it has
\* not connected yet
Ligado == _client = MongoClient(1) /\ _db = Database(_client)
Desligado == _client = None /\ _db = None

\* the collection setores of the snapshots of a process that has not
\* connected yet: one sector, which is not the one of the stays
SoUco == {Setor("s1", "uco", "Unidade Coronariana")}

\* the collections cti.setores and setores of the snapshots: none; one sector
\* that is not the one of the stays; a collection whose document has no code
\* before one whose two documents spell one code, one of them with a name; a
\* sector spelled without the hyphen
CatalogosDeSetores ==
    {<<{}, {}>>,
     <<{Setor("s1", "uco", NoneStr)}, {}>>,
     <<{Setor("s1", NoneStr, "CTI Adulto")},
       {Setor("s1", "uco", "Unidade Coronariana"), Setor("s2", "UCO", NoneStr)}>>,
     <<{}, {Setor("s1", "ctiadulto", "")}>>}

\* Snapshots for the requests that come one at a time: a connected process
\* over each of the catalogues, and one that has not connected yet over the
\* catalogue of the one other sector.
InitPedido ==
    /\ DadosPedido
    /\ \/ /\ Ligado
          /\ \E c \in CatalogosDeSetores : cti_setores = c[1] /\ setores = c[2]
       \/ /\ Desligado
          /\ cti_setores = {}
          /\ setores = SoUco

NextPedido == (\E t \in UmaThread : kpi_gestao(t, Pedidos)) \/ Tick(Leituras)

SpecPedido == InitPedido /\ [][NextPedido]_vars

\* Two worker threads serve requests for the report of one sector and window,
\* with persistence: in a connected process over the snapshot of the endpoint
\* with a collection of sectors that yields no code, and in a process that has
\* not connected yet over the catalogue of the one other sector.
InitSobreposto ==
    /\ DadosPedido
    /\ \/ Ligado /\ cti_setores = {Setor("s1", NoneStr, "CTI Adulto")} /\ setores = {}
       \/ Desligado /\ cti_setores = {} /\ setores = SoUco

NextSobreposto ==
    (\E t \in Threads : kpi_gestao(t, PedidosSobrepostos)) \/ Tick(FimDaJanela)

SpecSobreposto == InitSobreposto /\ [][NextSobreposto]_vars

\* the key of a stored or returned report
ChaveKpi(d) == <<d.id_setor, d.periodo.inicio, d.periodo.fim>>

\* the stored report d holds the returned document v and nothing of an earlier
\* result: its fields are those of v, the three of meta and _id
GuardaSomente(d, v) ==
    /\ DOMAIN d = DOMAIN v \cup {"versao", "gerado_em", "status_calculo", "_id"}
    /\ \A f \in DOMAIN v : d[f] = v[f]

\* the collection of reports holds at most one document of each key
C24_UmPorChave ==
    \A d1, d2 \in kpi_cti_gestao : ChaveKpi(d1) = ChaveKpi(d2) => d1 = d2

\* a step that answers a request with persistence leaves under the key of the
\* returned document a report that holds it, and it alone
C24_GuardaODevolvido ==
    \A t \in Threads :
        (thr[t].pc = "l183" /\ thr'[t].pc = "done") =>
            LET v == thr'[t].h.resp.v
            IN  /\ \E d \in kpi_cti_gestao' : ChaveKpi(d) = ChaveKpi(v)
                /\ \A d \in kpi_cti_gestao' : ChaveKpi(d) = ChaveKpi(v) => GuardaSomente(d, v)

\* a step changes the collection of reports only by the write of a request with
\* persistence, which leaves the documents of the other keys as they were
C24_SoAChave ==
    \/ kpi_cti_gestao' = kpi_cti_gestao
    \/ \E t \in Threads :
          /\ thr[t].pc \in {"l181", "l181i"}
          /\ thr[t].h.persistir
          /\ thr'[t].h.escritas = thr[t].h.escritas + 1
          /\ {d \in kpi_cti_gestao' : ChaveKpi(d) # ChaveKpi(thr[t].v)}
                = {d \in kpi_cti_gestao : ChaveKpi(d) # ChaveKpi(thr[t].v)}

(* C24: persisting is an idempotent upsert keyed by (sector, window.start, *)
(* window.end): after any kpi_gestao calls with persistence the collection *)
(* of reports holds at most one document of each key, and when a call      *)
(* returns, the document of its key holds what the call returns, with no   *)
(* field of an earlier result; no document of another key is changed.      *)
C24_UpsertIdempotente ==
    /\ []C24_UmPorChave
    /\ [][C24_GuardaODevolvido /\ C24_SoAChave]_vars

\* requests that do not overlap: the reports of the two windows were stored,
\* the first of them twice, the second time at a later reading of the clock; it
\* kept its _id and holds the document of the last response
C24_SemSobreposicao ==
    /\ \E t \in UmaThread :
          /\ thr[t].pc = "done" /\ resposta_gestao(t).status = 200 /\ thr[t].h.persistir
          /\ \E a \in kpi_cti_gestao :
                /\ a._id = 1
                /\ a.periodo.fim.dia = 2
                /\ a.gerado_em = data_iso_utc(Dt(2 * HoursPerDay))
                /\ GuardaSomente(a, thr[t].h.resp.v)
                /\ a.los_periodo_setor.media_d = 98
    /\ Cardinality(kpi_cti_gestao) = 2
    /\ \E b \in kpi_cti_gestao :
          /\ b._id = 2
          /\ b.periodo.fim.dia = 3
          /\ b.gerado_em = data_iso_utc(Dt(2 * HoursPerDay - 1))

\* two requests that overlapped have both returned and the collection holds
\* two reports of their key
C24_DoisDaMesmaChave ==
    /\ \A t \in Threads : thr[t].pc = "done" /\ resposta_gestao(t).status = 200
    /\ \E d1, d2 \in kpi_cti_gestao : d1 # d2 /\ ChaveKpi(d1) = ChaveKpi(d2)

\* the request of thread t has called the core and waits in it
NoNucleoDe(t) == thr[t].h.built /\ thr[t].pc \in NoNucleo

(* C25: when the storage fails while the unit-level document is computed,  *)
(* the request ends as a service-level failure (status 500) whose body is  *)
(* no document, the core was called exactly once, and the request writes   *)
(* nothing to the collection of reports; no request calls the core twice.  *)
C25_FalhaPropaga ==
    /\ [](\A t \in Threads : thr[t].h.built => thr[t].h.nucleo <= 1)
    /\ [][\A t \in Threads :
            (NoNucleoDe(t) /\ thr'[t].pc = "done") =>
                /\ thr'[t].h.resp = Resposta(500, HTTPException(500), 1, 0)
                /\ thr[t].h.escritas = 0
                /\ kpi_cti_gestao' = kpi_cti_gestao]_vars

\* a request with persistence has failed in the core at a reading of the clock
\* later than the one the stored report of the same sector and window was
\* generated at
C25_Witness ==
    \E t \in Threads :
        LET h == thr[t].h
        IN  /\ thr[t].pc = "done" /\ h.built
            /\ h.resp = Resposta(500, HTTPException(500), 1, 0)
            /\ h.persistir
            /\ h.inicio.k = "date" /\ h.fim.k = "date"
            /\ \E d \in kpi_cti_gestao :
                  /\ \E lista \in _setores_list(get_db) :
                        _canonicalize_setor(lista, h.setor) = [built |-> TRUE,
                                                               code |-> d.id_setor]
                  /\ d.periodo.inicio = data_iso_utc(_dt_utc(h.inicio, FALSE))
                  /\ d.periodo.fim = data_iso_utc(_dt_utc(h.fim, TRUE))
                  /\ d.gerado_em # data_iso_utc(Dt(now))

\* the request of the frame h has two dates, the start after the end
Invertido(h) ==
    /\ h.built
    /\ h.inicio.k = "date" /\ h.fim.k = "date"
    /\ h.inicio.t > h.fim.t

(* C28: a request whose start date is after its end date is rejected by   *)
(* the handler (status 400; or it never reaches the handler, the           *)
(* connection of Depends(get_db) having failed) with the core not called   *)
(* and the collection of reports untouched; for an accepted request the    *)
(* window passed to the core is the interval                               *)
(* [start date 00:00 UTC, end date + 1 day 00:00 UTC), whose start is      *)
(* strictly before its end, and it is the window of the returned document. *)
C28_JanelaDoPedido ==
    /\ [](\A t \in Threads :
            LET h == thr[t].h
            IN  /\ Invertido(h) =>
                      /\ thr[t].pc \in {"l22", "l23", "l35", "l42", "l43", "l43s", "l44",
                                        "l162", "done"}
                      /\ h.nucleo = 0 /\ h.escritas = 0
                      /\ thr[t].pc = "done" =>
                            \/ h.resp = Resposta(400, HTTPException(400), 0, 0)
                            \/ /\ ~h.resp.done
                               /\ thr[t].v = Raise("ServerSelectionTimeoutError")
                /\ (h.built /\ h.nucleo >= 1) =>
                      /\ h.inicio.k = "date" /\ h.fim.k = "date"
                      /\ h.inicio.t <= h.fim.t
                      /\ thr[t].pc # "done" =>
                            /\ thr[t].l.inicio_inclusivo = Dt(h.inicio.t * HoursPerDay)
                            /\ thr[t].l.fim_exclusivo = Dt((h.fim.t + 1) * HoursPerDay)
                            /\ thr[t].l.inicio_inclusivo.t < thr[t].l.fim_exclusivo.t
                      /\ (thr[t].pc = "done" /\ h.resp.status = 200) =>
                            /\ h.resp.v.periodo.inicio = [dia |-> h.inicio.t, hora |-> 0]
                            /\ h.resp.v.periodo.fim = [dia |-> h.fim.t + 1, hora |-> 0])
    /\ [][\A t \in Threads :
            (Invertido(thr[t].h) /\ thr'[t] # thr[t]) =>
                kpi_cti_gestao' = kpi_cti_gestao]_vars

\* a request from day 3 to day 1 has been rejected, and the report stored for
\* the request from day 1 to day 1 covers [day 1 00:00, day 2 00:00) and counts
\* the discharge of 23:00 of day 1
C28_Witness ==
    /\ \E t \in Threads :
          /\ thr[t].pc = "done"
          /\ thr[t].h.resp = Resposta(400, HTTPException(400), 0, 0)
          /\ thr[t].h.inicio = Data(3) /\ thr[t].h.fim = Data(1)
    /\ \E d \in kpi_cti_gestao :
          /\ d.periodo.inicio = [dia |-> 1, hora |-> 0]
          /\ d.periodo.fim = [dia |-> 2, hora |-> 0]
          /\ d.mortalidade.saidas = 1
          /\ \E x \in internacoes : x.alta_ts = Dt(2 * HoursPerDay - 1)

-----------------------------------------------------------------------------
(* The samples of the presence-based length of stay, for an admission with  *)
(* up to two stays, of which one at least names the target sector.          *)

\* the instants the stays start and end at
GridLos == {0, HoursPerDay - 1, HoursPerDay, 2 * HoursPerDay - 1, 2 * HoursPerDay,
            3 * HoursPerDay}

InitLos ==
    /\ now = 2 * HoursPerDay - 1
    /\ tz = 0
    /\ call = NoCall
    /\ ret = NoRet
    /\ internacoes = {Internacao("i1", "I1", "P1", Dt(0), None, NoneStr, NoneStr)}
    /\ \E E1 \in UmaEstada("e1", "I1", 0, Setores, GridLos),
          E2 \in UmaEstada("e2", "I1", 0, {"CTI-ADULTO"}, GridLos) :
          estadas = E1 \cup E2
    /\ ventilacao = {}
    /\ antibioticos_uso = {}
    /\ antibiotico_periodos = {}
    /\ paciente_dia_setor = {}
    /\ kpi_cti_gestao = {}
    /\ cti_setores = {}
    /\ setores = {}
    /\ dispositivo_uso = {}
    /\ labs = {}
    /\ _client = MongoClient(1)
    /\ _db = Database(_client)
    /\ thr = Parados
    /\ doc = NoDoc
    /\ loc = NoDoc

NextLos == (\E t \in UmaThread : build_sem_antibioticos(t, Janelas)) \/ Tick(Leituras)

SpecLos == InitLos /\ [][NextLos]_vars

\* two stays share an instant: a stay without an end lasts from its start on
Sobrepoem(e, f) ==
    /\ e # f
    /\ (f.fim.k = "none" \/ e.inicio.t < f.fim.t)
    /\ (e.fim.k = "none" \/ f.inicio.t < e.fim.t)

\* the stays of admission iid in the sector of the report
EstadasNoSetor(iid) ==
    {e \in estadas : e.id_internacao = iid /\ e.id_setor = loc.id_setor}

\* the length of the window of the report, in seconds
DuracaoJanela == total_seconds(loc.inicio_inclusivo, loc.fim_exclusivo)

(* C29: every sample of the presence-based length of stay is strictly      *)
(* positive, and the sample of an admission whose stays in the sector are  *)
(* pairwise non-overlapping is at most the length of the window.           *)
C29_AmostraLimitada ==
    loc.built =>
        \A iid \in DOMAIN loc.los_periodo_d :
            LET s == loc.los_periodo_d[iid]
            IN  /\ s.den = SecsPerDay
                /\ s.num > 0
                /\ (\A e, f \in EstadasNoSetor(iid) : ~Sobrepoem(e, f))
                      => s.num <= DuracaoJanela

\* two stays of I1 in the sector that meet at 23:00 of the day of the window,
\* the second still open: the sample is the whole window
C29_Witness ==
    /\ loc.built
    /\ loc.id_setor = "CTI-ADULTO"
    /\ Cardinality(EstadasNoSetor("I1")) = 2
    /\ \A e, f \in EstadasNoSetor("I1") : ~Sobrepoem(e, f)
    /\ \A e \in EstadasNoSetor("I1") :
          _overlap_seconds(e.inicio, e.fim, loc.inicio_inclusivo, loc.fim_exclusivo,
                           loc.now_utc) > 0
    /\ loc.los_periodo_d["I1"].num = DuracaoJanela

-----------------------------------------------------------------------------
(* The patient-level document (paciente.build_kpi_paciente) behind GET      *)
(* /kpi/paciente/{id_internacao}.  It reads the stored values as the driver *)
(* returns them, without _coerce_dt.  paciente.py imports get_db from the   *)
(* top-level module db_connection (line 5), whose globals are not those of *)
(* the module the other endpoints use: in the specification of this        *)
(* section _client and _db are the globals of that module, which the first *)
(* request finds empty.  Every blocking call of the storage is a step, and *)
(* under any of them the storage may fail.                                  *)

\* documents of dispositivo_uso and of labs
DispositivoUso(id, iid, tipo, inicio, fim) ==
    [_id |-> id, id_internacao |-> iid, tipo |-> tipo, inicio |-> inicio, fim |-> fim]

Lab(id, iid, exame, ts, valor, unidade) ==
    [_id |-> id, id_internacao |-> iid, exame |-> exame, ts |-> ts, valor |-> valor,
     unidade |-> unidade]

\* the stored value is returned as a datetime
eh_datetime(v) == v.k \in {"aware", "naive"}

\* b - a, a < b and a > b return for two datetimes that both carry a zone or
\* both carry none; for any other pair of stored values they raise TypeError
comparaveis(a, b) == eh_datetime(a) /\ a.k = b.k

\* sorted(q) and min(q) return: a list of two or more values compares each
\* value with another one
ordenavel(q) == Len(q) <= 1 \/ \A i, j \in 1..Len(q) : comparaveis(q[i], q[j])

\* the instants of the raw list q in increasing order
horas_ordenadas(q) == sorted([k \in 1..Len(q) |-> q[k].t])

\* data_iso_utc(v) if v else None, for a value that is None or a datetime
iso_ou_none(v) == IF Truthy(v) THEN data_iso_utc(v) ELSE None

\* lines 54-63: the locals of the admission it, now_utc being the reading of
\* the clock of line 56, or the TypeError of the subtraction of diferenca_dias
contexto(it, clock) ==
    LET adm_ts == it.admissao_ts
        alta_ts == it.alta_ts
        now_utc == Dt(clock)
        ate == IF Truthy(alta_ts) THEN alta_ts ELSE now_utc
    IN  IF ~comparaveis(adm_ts, ate) THEN Raise("TypeError")
        ELSE [built |-> TRUE, it |-> it, now_utc |-> now_utc,
              tempo_total_internacao_d |-> diferenca_dias(adm_ts, ate),
              status |-> IF Truthy(alta_ts) THEN it.desfecho ELSE "internado"]

RECURSIVE periodos_loop(_, _, _, _, _)
\* lines 76-88: the loop from the k-th period on, total_secs and ser being the
\* sum and the list so far; the TypeError of line 82 or the AttributeError of
\* data_iso_utc on a value that is no datetime (line 86)
periodos_loop(per, k, now_utc, total_secs, ser) ==
    IF k > Len(per)
    THEN [built |-> TRUE, total_secs |-> total_secs, periodos |-> ser]
    ELSE LET ini == per[k].inicio
             fim == per[k].fim
             end_ts == IF Truthy(fim) THEN fim ELSE now_utc
         IN  IF Truthy(ini) /\ ~comparaveis(ini, end_ts) THEN Raise("TypeError")
             ELSE IF Truthy(fim) /\ ~eh_datetime(fim) THEN Raise("AttributeError")
             ELSE periodos_loop(
                      per, k + 1, now_utc,
                      total_secs + (IF Truthy(ini) THEN total_seconds(ini, end_ts) ELSE 0),
                      Append(ser, [tipo |-> "ventilacao", inicio |-> iso_ou_none(ini),
                                   fim |-> iso_ou_none(fim), fonte_fim |-> ""]))

\* lines 96-104: the flag, or the TypeError of sorted (98, 99) or of i > e (101)
reint_flag_of(intubacoes_ts, extubacoes_ts) ==
    IF ~ordenavel(extubacoes_ts) \/ ~ordenavel(intubacoes_ts)
    THEN Raise("TypeError")
    ELSE IF /\ extubacoes_ts # <<>> /\ intubacoes_ts # <<>>
            /\ ~comparaveis(intubacoes_ts[1], extubacoes_ts[1])
    THEN Raise("TypeError")
    ELSE LET ext == horas_ordenadas(extubacoes_ts)
             intu == horas_ordenadas(intubacoes_ts)
         IN  [built |-> TRUE,
              reint_flag |-> \E k \in 1..Len(ext) : reintubada(intu, ext[k])]

\* db.ventilacao.find_one({"id_internacao": ...}) or {}: any of the documents of
\* the admission, or one without lists
vent_find_one(db, id_internacao) ==
    LET V == {v \in db.ventilacao : v.id_internacao = id_internacao}
    IN  IF V = {} THEN {Ventilacao("", id_internacao, <<>>, <<>>, <<>>)} ELSE V

\* lines 72-104: the locals of the ventilation section for the document vent
\* and the locals c of the admission, or the exception raised on the way
secao_ventilacao(c, vent) ==
    LET P == periodos_loop(vent.periodos, 1, c.now_utc, 0, <<>>)
        intu == vent.intubacoes_ts
        adm_ts == c.it.admissao_ts
        r == reint_flag_of(intu, vent.extubacoes_ts)
    IN  IF ~P.built THEN P
        \* lines 91-94: min(...) and the subtraction of diferenca_horas
        ELSE IF intu # <<>> /\ (~ordenavel(intu) \/ ~comparaveis(adm_ts, intu[1]))
        THEN Raise("TypeError")
        ELSE IF ~r.built THEN r
        ELSE [built |-> TRUE,
              vent |-> vent,
              periodos_serializados |-> P.periodos,
              tempo_total_vent_d |->
                  IF vent.periodos # <<>> THEN Frac(P.total_secs, SecsPerDay)
                  ELSE Frac(0, SecsPerDay),
              t_first_int_h |->
                  IF intu # <<>>
                  THEN Frac((horas_ordenadas(intu)[1] - adm_ts.t) * SecsPerHour,
                            SecsPerHour)
                  ELSE None,
              reint_flag |-> r.reint_flag]

\* lines 113-117: the list a device goes to
chave_dispositivo(tipo) ==
    LET t == lower(OrStr(tipo, ""))
    IN  CASE t = "cvc" -> "cvc"
          [] t = "foley" -> "foley"
          [] t \in {"art", "art_line", "arterial", "art."} -> "art_line"
          [] OTHER -> "outros"

RECURSIVE disp_loop(_, _, _)
\* lines 112-123: the loop from the k-th document of the cursor on, or the
\* AttributeError of data_iso_utc on a value that is no datetime
disp_loop(docs, k, disp) ==
    IF k > Len(docs) THEN [built |-> TRUE, disp |-> disp]
    ELSE LET d == docs[k]
             key == chave_dispositivo(d.tipo)
         IN  IF \/ Truthy(d.inicio) /\ ~eh_datetime(d.inicio)
                \/ Truthy(d.fim) /\ ~eh_datetime(d.fim)
             THEN Raise("AttributeError")
             ELSE disp_loop(docs, k + 1,
                            [disp EXCEPT ![key] =
                                Append(@, [inicio |-> iso_ou_none(d.inicio),
                                           fim |-> iso_ou_none(d.fim),
                                           fonte_fim |-> "",
                                           tipo_raw |-> d.tipo])])

\* x.date().isoformat(): the day of a datetime, in the zone it carries
date_iso(x) == [dia |-> x.t \div HoursPerDay]

RECURSIVE per_map_loop(_, _, _)
\* lines 135-139: the loop from the k-th period of the cursor on, or the
\* AttributeError of .date() on a value that is no datetime
per_map_loop(pers, k, per_map) ==
    IF k > Len(pers) THEN [built |-> TRUE, per_map |-> per_map]
    ELSE LET p == pers[k]
             linha == [inicio |-> date_iso(p.inicio), fim |-> date_iso(p.fim)]
         IN  IF ~eh_datetime(p.inicio) \/ ~eh_datetime(p.fim) THEN Raise("AttributeError")
             ELSE per_map_loop(
                      pers, k + 1,
                      IF p.id_ab_uso \in DOMAIN per_map
                      THEN [per_map EXCEPT ![p.id_ab_uso] = Append(@, linha)]
                      ELSE (p.id_ab_uso :> <<linha>>) @@ per_map)

\* lines 141-142: the two lists made of ab_docs
antibioticos_de(ab_docs, per_map) ==
    [dot_por_antibiotico |->
        [i \in DOMAIN ab_docs |->
            [antibiotico |-> ab_docs[i].antibiotico, dot_dias |-> 0]],
     linhas_do_tempo |->
        [i \in DOMAIN ab_docs |->
            [antibiotico |-> ab_docs[i].antibiotico,
             periodos |-> IF ab_docs[i]._id \in DOMAIN per_map
                          THEN per_map[ab_docs[i]._id] ELSE <<>>]]]

\* exames_chave of lines 149-150
exames_chave ==
    {"creatinina", "ureia", "hb", "leucocitos", "plaquetas", "ph", "pco2", "po2",
     "hco3", "lactato", "glicemia"}

\* _lab_flag for a value that is None or a whole number
_lab_flag(exame, valor) ==
    IF valor.k # "num" THEN ""
    ELSE LET v == valor.t
         IN  CASE exame = "creatinina" -> IF 10 * v > 12 THEN "↑" ELSE ""
               [] exame = "ureia" -> IF v > 50 THEN "↑" ELSE ""
               [] exame = "hb" -> IF v < 12 THEN "↓" ELSE ""
               [] exame = "leucocitos" ->
                     IF v > 11000 THEN "↑" ELSE IF v < 4000 THEN "↓" ELSE ""
               [] exame = "plaquetas" -> IF v < 150000 THEN "↓" ELSE ""
               [] exame = "ph" ->
                     IF 100 * v < 735 THEN "acidose (↓)"
                     ELSE IF 100 * v > 745 THEN "alcalose (↑)" ELSE ""
               [] exame = "pco2" -> IF v > 45 THEN "↑" ELSE IF v < 35 THEN "↓" ELSE ""
               [] exame = "po2" -> IF v < 60 THEN "↓" ELSE ""
               [] exame = "hco3" -> IF v < 22 THEN "↓" ELSE IF v > 26 THEN "↑" ELSE ""
               [] exame = "lactato" -> IF v > 2 THEN "↑" ELSE ""
               [] exame = "glicemia" -> IF v < 70 THEN "↓" ELSE IF v > 180 THEN "↑" ELSE ""
               [] OTHER -> ""

\* the order of the server on the values of ts: null, then strings, then dates
ts_antes(a, b) ==
    LET tipo(v) == IF v.k = "none" THEN 0 ELSE IF v.k = "bad" THEN 1 ELSE 2
    IN  tipo(a) < tipo(b) \/ (tipo(a) = tipo(b) /\ a.t < b.t)

\* $match of lines 154 and 177
labs_match(db, id_internacao) ==
    {x \in db.labs : x.id_internacao = id_internacao /\ x.exame \in exames_chave}

\* lines 153-163: the results of the aggregate: for each exam that has
\* documents, one of those the sort by ts descending may put first
ultimos_docs_choices(M) ==
    LET E == {x.exame : x \in M}
        primeiros(e) == {x \in M : /\ x.exame = e
                                   /\ \A y \in M : y.exame = e => ~ts_antes(x.ts, y.ts)}
    IN  {f \in [E -> M] : \A e \in E : f[e] \in primeiros(e)}

\* lines 165-173: ultimos, or the AttributeError of data_iso_utc on a value of
\* ts that is no datetime
ultimos_de(f) ==
    IF \E e \in DOMAIN f : Truthy(f[e].ts) /\ ~eh_datetime(f[e].ts)
    THEN Raise("AttributeError")
    ELSE [built |-> TRUE,
          ultimos |-> [e \in DOMAIN f |->
                          [valor |-> f[e].valor, unidade |-> f[e].unidade,
                           flag |-> _lab_flag(e, f[e].valor),
                           data |-> iso_ou_none(f[e].ts)]]]

\* the cursor of line 177: the documents in an order that the sort by ts
\* ascending allows
labs_sorted(M) ==
    {s \in cursor(M) : \A i, j \in DOMAIN s : i < j => ~ts_antes(s[j].ts, s[i].ts)}

\* lines 178-199: the series of each exam in the order of the cursor (the
\* bucket "htc" is never filled), or the AttributeError of data_iso_utc on a
\* value of ts that is no datetime
series_de(cur) ==
    LET series_bucket(e) ==
            LET s == SelectSeq(cur, LAMBDA x : x.exame = e)
            IN  [i \in DOMAIN s |-> [ts |-> data_iso_utc(s[i].ts), valor |-> s[i].valor]]
    IN  IF \E i \in DOMAIN cur : ~eh_datetime(cur[i].ts) THEN Raise("AttributeError")
        ELSE [built |-> TRUE,
              series |->
                  [creatinina |-> series_bucket("creatinina"),
                   ureia |-> series_bucket("ureia"),
                   hemograma |-> [hb |-> series_bucket("hb"),
                                  htc |-> series_bucket("htc"),
                                  leucocitos |-> series_bucket("leucocitos")],
                   plaquetas |-> series_bucket("plaquetas"),
                   gasometria |-> [ph |-> series_bucket("ph"),
                                   pco2 |-> series_bucket("pco2"),
                                   po2 |-> series_bucket("po2"),
                                   hco3 |-> series_bucket("hco3"),
                                   lactato |-> series_bucket("lactato")],
                   glicemia |-> series_bucket("glicemia")]]

\* lines 214-235: the document made of the locals h of the call, or the
\* AttributeError of data_iso_utc on an extubation that is no datetime
documento_paciente(h) ==
    LET ext == h.vent.extubacoes_ts
    IN  IF \E k \in DOMAIN ext : ~eh_datetime(ext[k]) THEN Raise("AttributeError")
        ELSE [built |-> TRUE,
              id_internacao |-> h.id_internacao,
              id_setor |-> "",
              id_paciente |-> h.it.id_paciente,
              admissao_ts |-> data_iso_utc(h.it.admissao_ts),
              alta_ts |-> iso_ou_none(h.it.alta_ts),
              status |-> h.status,
              tempo_total_internacao_d |-> round2(h.tempo_total_internacao_d),
              ventilacao |->
                  [tempo_total_d |-> round2(h.tempo_total_vent_d),
                   tempo_ate_primeira_intubacao_h |->
                       IF h.t_first_int_h = None THEN None
                       ELSE Num(round2(h.t_first_int_h)),
                   periodos |-> h.periodos_serializados,
                   extubacoes |-> [k \in DOMAIN ext |-> [ts |-> data_iso_utc(ext[k])]],
                   reintubacao_48h_flag |-> h.reint_flag],
              dispositivos |-> h.disp,
              antibioticos |-> antibioticos_de(h.ab_docs, h.per_map),
              labs |-> [ultimos |-> h.ultimos, series |-> h.series]]

\* the admissions the requests name
InternacoesPedidas == {"I1", "I9"}

\* the frame of a request before its first line: vent is the document of
\* line 71, resp the response
NoP == [built |-> FALSE, id_internacao |-> "", vent |-> NoDoc,
        resp |-> [done |-> FALSE]]

\* the steps of the request leave everything but the frame of its thread alone
SoPaciente ==
    /\ UNCHANGED <<_client, _db>>
    /\ SoConexao

\* the request of thread t ends with the response r; its frame is gone, the
\* admission asked for, the ventilation document vent that line 71 read (NoDoc
\* before that line) and the response remain
RespondeCom(t, r, vent) ==
    /\ thr' = [thr EXCEPT
                 ![t] = [Parado EXCEPT
                           !.pc = "done",
                           !.criados = thr[t].criados,
                           !.falhas = thr[t].falhas,
                           !.h = [NoP EXCEPT !.built = TRUE,
                                             !.id_internacao = thr[t].h.id_internacao,
                                             !.vent = vent,
                                             !.resp = r]]]
    /\ SoPaciente

RespondeP(t, r) == RespondeCom(t, r, thr[t].h.vent)

\* an exception leaves build_kpi_paciente and the handler, which catches
\* nothing: the server answers 500
RaiseP(t, exc) == RespondeP(t, Resposta(500, exc, 0, 0))

\* the call of thread t goes on to line pc with the new locals f
AvancaP(t, pc, f) ==
    /\ thr' = [ComH(t, f) EXCEPT ![t].pc = pc]
    /\ SoPaciente

\* main.py 185-187 and paciente.py 49: a request arrives and
\* build_kpi_paciente enters get_db
kpi_paciente_entra(t) ==
    /\ thr[t].pc \in {"idle", "done"}
    /\ Criados < MaxClientes
    /\ \E id_internacao \in InternacoesPedidas :
          thr' = [thr EXCEPT
                    ![t] = [Parado EXCEPT
                              !.pc = "l22", !.ra = "p50",
                              !.criados = thr[t].criados,
                              !.falhas = thr[t].falhas,
                              !.h = [NoP EXCEPT !.built = TRUE,
                                                !.id_internacao = id_internacao]]]
    /\ SoPaciente

\* lines 50-63: find_one returns one of the documents of the admission, or
\* none, and then the error document is the HTTPException(404) of main.py 189
internacoes_find_one(t) ==
    /\ thr[t].pc = "p50"
    /\ LET S == {x \in internacoes : x.id_internacao = thr[t].h.id_internacao}
       IN  \/ RaiseP(t, Raise("PyMongoError"))
           \/ /\ S = {}
              /\ RespondeP(t, Resposta(404, HTTPException(404), 0, 0))
           \/ \E it \in S :
                 LET c == contexto(it, now)
                 IN  IF c.built THEN AvancaP(t, "p71", c) ELSE RaiseP(t, c)

\* lines 71-104: find_one returns one of the ventilation documents of the
\* admission, or none
ventilacao_find_one(t) ==
    /\ thr[t].pc = "p71"
    /\ \/ RaiseP(t, Raise("PyMongoError"))
       \/ \E vent \in vent_find_one(get_db, thr[t].h.id_internacao) :
             LET s == secao_ventilacao(thr[t].h, vent)
             IN  IF s.built THEN AvancaP(t, "p110", s)
                 ELSE RespondeCom(t, Resposta(500, s, 0, 0), vent)

\* lines 110-123: the devices of the admission, in the order of the cursor
dispositivo_uso_find(t) ==
    /\ thr[t].pc = "p110"
    /\ \/ RaiseP(t, Raise("PyMongoError"))
       \/ \E docs \in cursor({d \in dispositivo_uso :
                                 d.id_internacao = thr[t].h.id_internacao}) :
             LET s == disp_loop(docs, 1, [cvc |-> <<>>, foley |-> <<>>,
                                          art_line |-> <<>>, outros |-> <<>>])
             IN  IF s.built THEN AvancaP(t, "p129", s) ELSE RaiseP(t, s)

\* lines 129-134: the antibiotic usages of the admission, in the order of the
\* cursor; their periods are asked for when there is a usage
antibioticos_uso_find(t) ==
    /\ thr[t].pc = "p129"
    /\ \/ RaiseP(t, Raise("PyMongoError"))
       \/ \E ab_docs \in cursor({x \in antibioticos_uso :
                                    x.id_internacao = thr[t].h.id_internacao}) :
             AvancaP(t, IF ab_docs # <<>> THEN "p135" ELSE "p153",
                     [ab_docs |-> ab_docs, per_map |-> <<>>])

\* lines 135-139: the periods of those usages, in the order of the cursor
antibiotico_periodos_find(t) ==
    /\ thr[t].pc = "p135"
    /\ LET ab_ids == {thr[t].h.ab_docs[i]._id : i \in DOMAIN thr[t].h.ab_docs}
       IN  \/ RaiseP(t, Raise("PyMongoError"))
           \/ \E pers \in cursor({p \in antibiotico_periodos : p.id_ab_uso \in ab_ids}) :
                 LET s == per_map_loop(pers, 1, <<>>)
                 IN  IF s.built THEN AvancaP(t, "p153", s) ELSE RaiseP(t, s)

\* lines 153-173: the last result of each exam
labs_aggregate(t) ==
    /\ thr[t].pc = "p153"
    /\ \/ RaiseP(t, Raise("PyMongoError"))
       \/ \E f \in ultimos_docs_choices(labs_match(get_db, thr[t].h.id_internacao)) :
             LET s == ultimos_de(f)
             IN  IF s.built THEN AvancaP(t, "p177", s) ELSE RaiseP(t, s)

\* lines 177-235 and main.py 188-190: the series, the document, and the
\* response
labs_find(t) ==
    /\ thr[t].pc = "p177"
    /\ \/ RaiseP(t, Raise("PyMongoError"))
       \/ \E cur \in labs_sorted(labs_match(get_db, thr[t].h.id_internacao)) :
             LET s == series_de(cur)
                 data == documento_paciente(s @@ thr[t].h)
             IN  IF ~s.built THEN RaiseP(t, s)
                 ELSE IF ~data.built THEN RaiseP(t, data)
                 ELSE RespondeP(t, Resposta(200, data, 0, 0))

\* build_kpi_paciente, the call of get_db included
build_kpi_paciente(t) ==
    \/ Testa(t) \/ Reutiliza(t)
    \/ Constroi(t) \/ Ping(t) \/ Indexa(t) \/ Atribui(t) \/ Devolve(t)
    \/ internacoes_find_one(t)
    \/ ventilacao_find_one(t)
    \/ dispositivo_uso_find(t)
    \/ antibioticos_uso_find(t)
    \/ antibiotico_periodos_find(t)
    \/ labs_aggregate(t)
    \/ labs_find(t)

\* GET /kpi/paciente/{id_internacao}: 404 for the error document; an exception
\* of build_kpi_paciente is not caught and ends the request with status 500
kpi_paciente(t) == kpi_paciente_entra(t) \/ build_kpi_paciente(t)

\* the instants of the ventilation events, as the driver may return them: with
\* a zone, without one, or None
Extubacoes == {None, Dt(0), Dt(HoursPerDay), Naive(0)}
Intubacoes == {None, Dt(HoursPerDay), Dt(3 * HoursPerDay), Naive(HoursPerDay)}

\* the devices, the antibiotics with their periods and the results of the
\* snapshots of the patient document
DispositivosPaciente ==
    {{},
     {DispositivoUso("d1", "I1", "CVC", Dt(0), Dt(HoursPerDay)),
      DispositivoUso("d2", "I1", "foley", Dt(HoursPerDay), None),
      DispositivoUso("d3", "I2", "cvc", Dt(0), None)},
     {DispositivoUso("d1", "I1", "art.", Dt(0), None),
      DispositivoUso("d2", "I1", NoneStr, None, Dt(HoursPerDay))},
     {DispositivoUso("d1", "I1", "PICC", Dt(0), Bad)}}

AntibioticosPaciente ==
    {<<{}, {}>>,
     <<{AntibioticoUso("a1", "I1", "meropenem"), AntibioticoUso("a2", "I1", "vancomicina")},
       {AntibioticoPeriodo("p1", "a1", Dt(0), Dt(2 * HoursPerDay)),
        AntibioticoPeriodo("p2", "a1", Dt(3 * HoursPerDay), Dt(3 * HoursPerDay + 1))}>>,
     <<{AntibioticoUso("a1", "I1", "meropenem")},
       {AntibioticoPeriodo("p1", "a1", Dt(0), None)}>>,
     <<{AntibioticoUso("a1", "I2", "meropenem")},
       {AntibioticoPeriodo("p1", "a1", Dt(0), None)}>>}

LabsPaciente ==
    {{},
     {Lab("x1", "I1", "creatinina", Dt(HoursPerDay), Num(1), "mg/dL"),
      Lab("x2", "I1", "creatinina", Dt(2 * HoursPerDay), Num(2), "mg/dL"),
      Lab("x3", "I1", "hb", Dt(0), Num(10), "g/dL"),
      Lab("x4", "I1", "Creatinina", Dt(3 * HoursPerDay), Num(9), "mg/dL")},
     {Lab("x1", "I1", "lactato", Dt(HoursPerDay), Num(1), "mmol/L"),
      Lab("x2", "I1", "lactato", Dt(HoursPerDay), Num(3), "mmol/L")},
     {Lab("x1", "I1", "ph", None, Num(7), "")},
     {Lab("x1", "I1", "ph", Bad, None, "")}}

\* what every snapshot of the patient document shares: the clock, the stay, and
\* a process that has not connected yet
DadosPaciente ==
    /\ now = 4 * HoursPerDay
    /\ tz = 0
    /\ call = NoCall
    /\ ret = NoRet
    /\ estadas = {Estada("e1", "I1", "CTI-ADULTO", Dt(0), None)}
    /\ paciente_dia_setor = {}
    /\ kpi_cti_gestao = {}
    /\ cti_setores = {}
    /\ setores = {}
    /\ _client = None
    /\ _db = None
    /\ thr = Parados
    /\ doc = NoDoc
    /\ loc = NoDoc

\* Snapshots for the patient document.  Either admission I1, discharged or
\* not, has one ventilation document of up to two intubations and two
\* extubations and nothing else; or it has two documents of its own and two
\* ventilation documents, with devices, antibiotics and results.
InitPaciente ==
    /\ DadosPaciente
    /\ \/ /\ \E adm \in {Dt(0), Naive(0)}, alta \in {None, Dt(4 * HoursPerDay - 1)} :
                internacoes = {Internacao("i1", "I1", "P1", adm, alta, "alta", NoneStr)}
          /\ \E intu \in Seqs2(Intubacoes), ext \in Seqs2(Extubacoes),
                per \in {<<>>, <<Periodo(Naive(HoursPerDay), None)>>} :
                ventilacao = {Ventilacao("v1", "I1", intu, ext, per)}
          /\ dispositivo_uso = {}
          /\ antibioticos_uso = {}
          /\ antibiotico_periodos = {}
          /\ labs = {}
       \/ /\ internacoes =
                {Internacao("i1", "I1", "P1", Dt(0), None, NoneStr, NoneStr),
                 Internacao("i2", "I1", "P2", Dt(HoursPerDay),
                            Dt(4 * HoursPerDay - 1), "obito", NoneStr)}
          /\ ventilacao =
                {Ventilacao("v1", "I1", <<Dt(HoursPerDay), Dt(2 * HoursPerDay)>>,
                            <<Dt(2 * HoursPerDay - 1)>>,
                            <<Periodo(Dt(HoursPerDay), Dt(2 * HoursPerDay - 1)),
                              Periodo(Dt(2 * HoursPerDay), None)>>),
                 Ventilacao("v2", "I1", <<Dt(HoursPerDay)>>, <<>>,
                            <<Periodo(None, Bad)>>)}
          /\ \E D \in DispositivosPaciente : dispositivo_uso = D
          /\ \E A \in AntibioticosPaciente :
                antibioticos_uso = A[1] /\ antibiotico_periodos = A[2]
          /\ \E L \in LabsPaciente : labs = L

NextPaciente == \E t \in UmaThread : kpi_paciente(t)

SpecPaciente == InitPaciente /\ [][NextPaciente]_vars

\* the response to the finished request of thread t: the one of the handler,
\* or the 500 of the exception that left get_db
resposta_paciente(t) ==
    IF thr[t].h.resp.done THEN thr[t].h.resp ELSE Resposta(500, thr[t].v, 0, 0)

\* the request of thread t for admission I1 is finished and the storage has
\* answered every call it made
PedidoAtendido(t) ==
    /\ thr[t].pc = "done"
    /\ thr[t].h.built
    /\ thr[t].h.id_internacao = "I1"
    /\ resposta_paciente(t).v \notin {Raise("PyMongoError"),
                                      Raise("ServerSelectionTimeoutError")}

\* the reintubations the loop of gestao.py 313-316 counts for the document v
reint_da_unidade(v) ==
    reint_of(sorted(coerced(v.intubacoes_ts)), sorted(coerced(v.extubacoes_ts)))

(* C27: the patient-level flag agrees with the unit-level detector: for    *)
(* the ventilation document of the admission, build_kpi_paciente returns a *)
(* document whose reintubacao_48h_flag is true exactly when the unit-level *)
(* loop counts at least one reintubation for that document.                *)
C27_FlagConcorda ==
    \A t \in Threads :
        PedidoAtendido(t) =>
            /\ resposta_paciente(t).status = 200
            /\ resposta_paciente(t).v.ventilacao.reintubacao_48h_flag
                  = (reint_da_unidade(thr[t].h.vent) >= 1)

\* where build_kpi_paciente returns a document, its flag is that of the unit
C27_ConcordaQuandoRetorna ==
    \A t \in Threads :
        (PedidoAtendido(t) /\ resposta_paciente(t).status = 200) =>
            resposta_paciente(t).v.ventilacao.reintubacao_48h_flag
                = (reint_da_unidade(thr[t].h.vent) >= 1)

\* the request has ended in the TypeError of a ventilation document for which
\* the unit counts a reintubation
C27_ExcecaoComReintubacao ==
    \E t \in Threads :
        /\ PedidoAtendido(t)
        /\ resposta_paciente(t).v = Raise("TypeError")
        /\ thr[t].h.vent # NoDoc
        /\ reint_da_unidade(thr[t].h.vent) >= 1

-----------------------------------------------------------------------------
(* Calls of get_db (db_connection.get_db) from the worker                   *)
(* threads, from a cold start.                                            *)

InitSingleton ==
    /\ now = 0
    /\ tz = 0
    /\ call = NoCall
    /\ ret = NoRet
    /\ internacoes = {}
    /\ estadas = {}
    /\ ventilacao = {}
    /\ antibioticos_uso = {}
    /\ antibiotico_periodos = {}
    /\ paciente_dia_setor = {}
    /\ kpi_cti_gestao = {}
    /\ cti_setores = {}
    /\ setores = {}
    /\ dispositivo_uso = {}
    /\ labs = {}
    /\ _client = None
    /\ _db = None
    /\ thr = NoThreads
    /\ doc = NoDoc
    /\ loc = NoDoc

NextSingleton ==
    \E t \in Threads :
        \/ Chama(t) \/ Testa(t) \/ Reutiliza(t)
        \/ Constroi(t) \/ Ping(t) \/ Indexa(t) \/ Atribui(t) \/ Devolve(t)

SpecSingleton == InitSingleton /\ [][NextSingleton]_vars

\* the handles the finished calls returned (handles of one client count as the
\* same Database)
Devolvidos ==
    {thr[t].v : t \in {u \in Threads : /\ thr[u].pc = "done"
                                        /\ "k" \in DOMAIN thr[u].v
                                        /\ thr[u].v.k = "db"}}

(* C30: the connection is created at most once: all callers of get_db      *)
(* receive the same Database and only one client is constructed, apart     *)
(* from the one more a call constructs after each failed connectivity      *)
(* check; and while no check has succeeded no Database is cached.          *)
C30_SingletonUnico ==
    /\ Criados <= 1 + Falhas
    /\ Cardinality(Devolvidos) <= 1
    /\ (Criados = Falhas /\ \A t \in Threads : thr[t].pc \notin {"l43", "l43s", "l44"})
          => _db = None

\* the part of C30 about a failed check: a call that raised has cached
\* nothing, and a call entered with nothing cached goes on to construct a client
C30_FalhaNaoGuarda ==
    /\ (Criados = Falhas /\ \A t \in Threads : thr[t].pc \notin {"l43", "l43s", "l44"})
          => _db = None
    /\ \A t \in Threads : (thr[t].pc = "l35") => ENABLED Constroi(t)

-----------------------------------------------------------------------------
(* Two invocations of build_kpi_cti_gestao on two worker threads, from a    *)
(* cold start: each obtains the handle through get_db, reads the clock and  *)
(* the storage, and assembles its document.  Whatever an invocation writes  *)
(* is a local of its own call.                                              *)

\* Snapshots for the concurrent invocations: those of the endpoint, before the
\* first connection.
InitConc ==
    /\ now = 2 * HoursPerDay - 1
    /\ tz = 0
    /\ call = NoCall
    /\ ret = NoRet
    /\ internacoes =
          {Internacao("i1", "I1", "P1", Dt(0), None, NoneStr, NoneStr),
           Internacao("i2", "I2", "P2", Dt(0), Dt(2 * HoursPerDay - 1), "obito", NoneStr)}
    /\ estadas = {Estada("e1", "I1", "CTI-ADULTO", Dt(0), None),
                  Estada("e2", "I2", "CTI-ADULTO", Dt(0), Dt(2 * HoursPerDay - 1))}
    /\ ventilacao = {Ventilacao("v1", "I1", <<Dt(HoursPerDay - 4)>>, <<>>,
                                <<Periodo(Dt(HoursPerDay), None)>>)}
    /\ antibioticos_uso = {}
    /\ antibiotico_periodos = {}
    /\ paciente_dia_setor = {}
    /\ kpi_cti_gestao = {}
    /\ cti_setores = {}
    /\ setores = {}
    /\ dispositivo_uso = {}
    /\ labs = {}
    /\ _client = None
    /\ _db = None
    /\ thr = Parados
    /\ doc = NoDoc
    /\ loc = NoDoc

\* the windows of the concurrent invocations: the second day, and the first
\* two days
JanelasConc == Janelas \cup {<<Dt(0), Dt(2 * HoursPerDay)>>}

NextConc ==
    \/ \E t \in Threads :
          \/ build_sem_antibioticos(t, JanelasConc)
          \/ Constroi(t) \/ Ping(t) \/ Indexa(t) \/ Atribui(t) \/ Devolve(t)
    \/ Tick(FimDaJanela)

SpecConc == InitConc /\ [][NextConc]_vars

\* the documents an invocation called with r returns when it runs alone
DocumentosSozinho(r) ==
    {document_of(l) : l \in invocacoes(get_db, r.id_setor, r.w[1], r.w[2], Leituras)}

(* C26: under any interleaving of two concurrent report computations over  *)
(* the same snapshot, the document each invocation returns is one it       *)
(* returns when run alone with the same sector and window.                 *)
C26_InvocacoesIndependentes ==
    \A t \in Threads :
        (thr[t].pc = "done" /\ thr[t].v.built) =>
            thr[t].v \in DocumentosSozinho(thr[t].req)

\* both invocations have returned, the second begun while the first was under
\* way, with different sectors and different documents; both went through the
\* construction of a client
C26_Witness ==
    /\ \A t \in Threads : thr[t].pc = "done" /\ thr[t].v.built
    /\ thr[2].conc
    /\ thr[1].req.id_setor # thr[2].req.id_setor
    /\ thr[1].v # thr[2].v
    /\ thr[1].v.coorte.pacientes_no_periodo = 2
    /\ thr[2].v.coorte.pacientes_no_periodo = 0
    /\ Criados = 2

\* thread 1 read now_utc one hour before the end of the window and is still
\* waiting for the ventilation documents when thread 2, which read now_utc at
\* the end of the window, has returned the document of the same sector and
\* window
C26_WitnessUltrapassada ==
    /\ now = 2 * HoursPerDay
    /\ thr[1].pc = "l279" /\ thr[1].l.now_utc = 2 * HoursPerDay - 1
    /\ thr[2].pc = "done" /\ thr[2].v.built
    /\ thr[2].l.now_utc = 2 * HoursPerDay
    /\ thr[2].req = thr[1].req
    /\ thr[2].v.tempo_ventilacao_no_periodo.media_d = 100

\* both have returned the document of the same sector and window: the one of
\* thread 1, held at line 116 until the window had ended, has the stay of I1
\* over the whole day and its open ventilation period up to the hour before
C26_WitnessLeiturasDiferentes ==
    /\ \A t \in Threads : thr[t].pc = "done" /\ thr[t].v.built
    /\ thr[2].req = thr[1].req
    /\ thr[1].l.now_utc = 2 * HoursPerDay - 1
    /\ "I1" \in DOMAIN thr[1].l.los_periodo_d
    /\ thr[1].l.los_periodo_d["I1"] = Frac(HoursPerDay * SecsPerHour, SecsPerDay)
    /\ thr[1].v.tempo_ventilacao_no_periodo.media_d = 96
    /\ thr[2].v.tempo_ventilacao_no_periodo.media_d = 100

\* both have returned, the second begun while the first was under way, for the
\* same sector and different windows: the second day for thread 1, the first
\* two days for thread 2, whose document has the longer stays
C26_WitnessJanelasDiferentes ==
    /\ \A t \in Threads : thr[t].pc = "done" /\ thr[t].v.built
    /\ thr[2].conc
    /\ thr[1].req.id_setor = thr[2].req.id_setor
    /\ thr[1].req.w = <<Dt(HoursPerDay), Dt(2 * HoursPerDay)>>
    /\ thr[2].req.w = <<Dt(0), Dt(2 * HoursPerDay)>>
    /\ thr[1].v # thr[2].v
    /\ "I1" \in DOMAIN thr[1].l.los_periodo_d
    /\ "I1" \in DOMAIN thr[2].l.los_periodo_d
    /\ thr[1].l.los_periodo_d["I1"] # thr[2].l.los_periodo_d["I1"]

====
